---- MODULE Spec2Model ----
(***************************************************************************)
(* Credential vault of keychain-lockscreen-credentials.                    *)
(*                                                                         *)
(* StorageService (src/src/services/StorageService.js) keeps three stores: *)
(*   - the MMKV string 'itemsList'      (itemsList)                        *)
(*   - the MMKV strings 'metadata_<k>'  (metadata)                         *)
(*   - one keychain entry per service   (keychain)                         *)
(* Every public method is an async function with exactly one keychain      *)
(* await.  A call is modelled as two steps: the synchronous part up to the *)
(* await (which issues the keychain request), and the keychain operation   *)
(* (performed by the platform, may succeed or throw) together with the     *)
(* continuation after the await (or the catch block).  Calls of different  *)
(* callers interleave at the await, as JavaScript promises do.             *)
(* new Date() is read by the synchronous part only; the clock may have     *)
(* advanced by one reading when a call begins.                             *)
(***************************************************************************)
EXTENDS Integers, Sequences, FiniteSets, TLC

\* ---------------------------------------------------------------- bounds
NumKeys      == 2      \* credential identifiers 1..NumKeys
NumUsers     == 1      \* usernames 1..NumUsers
NumPasswords == 2      \* passwords 1..NumPasswords
NumCallers   == 2      \* callers that may have a call in flight
MaxClock     == 2      \* readings of new Date(): 1..MaxClock
MaxCalls     == 2      \* calls made in one run
NumGates     == 2      \* authenticateWithLockscreen calls that may be in flight
MaxAuths     == 2      \* authenticateWithLockscreen calls made in one run
MaxAttempts  == 3      \* of them, attempts of the gating screen
MaxProbes    == 2      \* device-lock probes made in one run

Keys      == 1..NumKeys
Users     == 1..NumUsers
Passwords == 1..NumPasswords
Callers   == 1..NumCallers
Gates     == 1..NumGates
TempKeys  == 1..MaxClock

\* options = { useBiometrics, useDevicePasscode } as passed by the caller
Options == [useBiometrics : BOOLEAN, useDevicePasscode : BOOLEAN]
NoOptions == [useBiometrics |-> FALSE, useDevicePasscode |-> FALSE]

Platforms == {"ios", "android"}

VARIABLES
  os,          \* Platform.OS
  now,         \* current reading of new Date()
  itemsList,   \* MMKV 'itemsList': sequence of keys
  metadata,    \* MMKV 'metadata_<key>' per key
  keychain,    \* keychain entry per service `${SERVICE}.${key}`
  calls,       \* per caller: the call in flight and its position
  started,     \* number of calls made so far
  overlapped,  \* history: some call started while another was in flight
  device,      \* what the device has enrolled: biometry, passcode
  appSecurityEnabled,  \* securityStorage 'appSecurityEnabled'
  route,       \* the screen on top of the navigation stack
  lock,        \* component state of LockscreenAuthScreen
  settings,    \* component state of SettingsScreen
  auths,       \* authenticateWithLockscreen calls and their positions
  throwaway,   \* keychain entries of the services auth_check_<time>
  authCount,   \* number of authenticateWithLockscreen calls made so far
  probe,       \* the device-lock probe in flight and its position
  probeKeys,   \* keychain services credential_check_<time>, test_passcode_<time>
  form,        \* component state of HomeScreen's form
  detail       \* component state of CredentialDetailScreen

vaultVars == <<itemsList, metadata, keychain, calls, started, overlapped>>

screenVars == <<appSecurityEnabled, route, lock, settings>>

probeVars == <<probe, probeKeys>>

formVars == <<form, detail>>

appVars == <<device, probeVars, formVars, appSecurityEnabled, route, lock,
             settings, auths, throwaway, authCount>>

vars == <<os, now, itemsList, metadata, keychain, calls, started, overlapped,
          device, probeVars, formVars, appSecurityEnabled, route, lock,
          settings, auths, throwaway, authCount>>

\* ------------------------------------------------------- stored values
NoMeta == [present |-> FALSE, createdAt |-> 0, updatedAt |-> 0,
           useBiometrics |-> FALSE, useDevicePasscode |-> FALSE]

\* `flags` records the options of the call that sealed the entry
NoSecret == [present |-> FALSE, username |-> 0, password |-> 0,
             accessControl |-> "null", flags |-> NoOptions]

\* variant: no key is ever found
IncludesNothing(items, key) == FALSE

\* StorageService.getItemsList / Array.prototype.includes
Includes(items, key) == \E i \in 1..Len(items) : items[i] = key

\* Array.prototype.filter(item => item !== key)
RECURSIVE FilterOut(_, _)

\* variant: the first element is dropped whatever the key (items.shift())
FilterOutHead(items, key) ==
  IF items = <<>> THEN <<>> ELSE Tail(items)

\* variant: the filter predicate inverted (item => item === key)
FilterKept(items, key) ==
  IF Includes(items, key) THEN <<key>> ELSE <<>>

FilterOut(items, key) ==
  IF items = <<>> THEN <<>>
  ELSE IF Head(items) = key THEN FilterOut(Tail(items), key)
       ELSE <<Head(items)>> \o FilterOut(Tail(items), key)

\* the four policies, from a pair of flags and from a sealed access control
Policy(flags) ==
  IF flags.useBiometrics /\ flags.useDevicePasscode THEN "BiometricOrPasscode"
  ELSE IF flags.useBiometrics THEN "Biometric"
  ELSE IF flags.useDevicePasscode THEN "DevicePasscode"
  ELSE "None"

SealedPolicy(accessControl) ==
  CASE accessControl = "BIOMETRY_ANY_OR_DEVICE_PASSCODE" -> "BiometricOrPasscode"
    [] accessControl = "BIOMETRY_ANY" -> "Biometric"
    [] accessControl = "DEVICE_PASSCODE" -> "DevicePasscode"
    [] OTHER -> "None"

\* ------------------------------------------------ saveCredential, pure
\* variant: the device-passcode branches are missing
AccessControlBiometricsOnly(options) ==
  IF options.useBiometrics THEN "BIOMETRY_ANY" ELSE "null"

\* variant: the single-flag branches come first
AccessControlFirstFlag(options) ==
  IF options.useBiometrics THEN "BIOMETRY_ANY"
  ELSE IF options.useDevicePasscode THEN "DEVICE_PASSCODE"
  ELSE "null"

\* accessControl chosen from the two flags
AccessControl(options) ==
  IF options.useBiometrics /\ options.useDevicePasscode
    THEN "BIOMETRY_ANY_OR_DEVICE_PASSCODE"
  ELSE IF options.useBiometrics THEN "BIOMETRY_ANY"
  ELSE IF options.useDevicePasscode THEN "DEVICE_PASSCODE"
  ELSE "null"

\* Android attaches authenticationPrompt to the write when a flag is set
SavePrompt(platform, options) ==
  platform = "android" /\ (options.useBiometrics \/ options.useDevicePasscode)

\* the metadata object saveCredential builds: both timestamps are fresh
SaveMetadata(t, options) ==
  [present |-> TRUE, createdAt |-> t, updatedAt |-> t,
   useBiometrics |-> options.useBiometrics,
   useDevicePasscode |-> options.useDevicePasscode]

\* variant: the secret ends up in the stored metadata
StoredMetadataLeaks(key, username, password, t, options) ==
  [SaveMetadata(t, options) EXCEPT !.updatedAt = password]

\* what saveCredential stores under metadata_<key>, of all it has in
\* scope: the timestamps and the two flags (and the key)
StoredMetadata(key, username, password, t, options) ==
  SaveMetadata(t, options)

\* the metadata object updateCredential builds from the stored one
UpdateMetadata(stored, t, options) ==
  [present |-> TRUE,
   createdAt |-> IF stored.present THEN stored.createdAt ELSE t,
   updatedAt |-> t,
   useBiometrics |-> options.useBiometrics,
   useDevicePasscode |-> options.useDevicePasscode]

\* ------------------------------------------------- getCredential, pure
\* requiresAuth = metadata.useBiometrics || metadata.useDevicePasscode
RequiresAuth(meta) == meta.useBiometrics \/ meta.useDevicePasscode

\* variant: the prompt is attached to every read
GetPromptAlways(meta, options) == TRUE

\* variant: the caller's useBiometrics is ignored
GetPromptStoredOnly(meta, options) == RequiresAuth(meta)

\* authenticationPrompt is attached if (requiresAuth || useBiometrics)
GetPrompt(meta, options) == RequiresAuth(meta) \/ options.useBiometrics

\* keychainOptions.accessControl of the read (set on Android only)
GetAccessControl(platform, meta, options) ==
  IF GetPrompt(meta, options) /\ platform = "android"
    THEN IF meta.useBiometrics THEN "BIOMETRY_ANY" ELSE "DEVICE_PASSCODE"
    ELSE "null"

\* --------------------------------------------------------------- calls
NoRequest == [kind |-> "none", prompt |-> FALSE, accessControl |-> "null"]

NoSnapshot == [meta |-> NoMeta, secret |-> NoSecret, items |-> <<>>]

IdleCall ==
  [pc |-> "idle", op |-> "none", key |-> 0, username |-> 0, password |-> 0,
   options |-> NoOptions, request |-> NoRequest, settled |-> "none",
   value |-> NoSecret, challenge |-> "none", keychainOps |-> <<>>,
   returned |-> "none", pre |-> NoSnapshot]

InFlight(c) == calls[c].pc = "awaiting"

Quiescent == \A c \in Callers : ~InFlight(c)

\* a returned value is handed to its caller before anything else runs
Observed == \A c \in Callers : calls[c].pc # "done"

Snapshot(key) ==
  [meta |-> metadata[key], secret |-> keychain[key], items |-> itemsList]

\* a call begins at time t: its arguments, the state it found, the request
\* it issued; callers are interchangeable, so the lowest idle one is used
Begin(c, t, op, key, username, password, options, request) ==
  /\ t \in now..MaxClock
  /\ now' = t
  /\ Observed
  /\ started < MaxCalls
  /\ started' = started + 1
  /\ calls[c].pc = "idle"
  /\ \A d \in Callers : d < c => calls[d].pc # "idle"
  /\ calls' = [calls EXCEPT ![c] =
       [IdleCall EXCEPT !.pc = "awaiting", !.op = op, !.key = key,
          !.username = username, !.password = password,
          !.options = options, !.request = request,
          !.pre = Snapshot(key)]]
  /\ overlapped' = (overlapped \/ \E d \in Callers \ {c} : InFlight(d))

\* -------------------------------------------- StorageService, sync part
\* saveCredential up to `await Keychain.setGenericPassword`
SaveCredential(c, t, key, username, password, options) ==
  /\ metadata' = [metadata EXCEPT ![key] =
                    StoredMetadata(key, username, password, t, options)]
  /\ Begin(c, t, "save", key, username, password, options,
           [kind |-> "set", prompt |-> SavePrompt(os, options),
            accessControl |-> AccessControl(options)])
  /\ UNCHANGED <<os, itemsList, keychain>>

\* updateCredential: rewrites the stored metadata, then runs saveCredential
\* up to its await (which writes metadata_<key> a second time)
UpdateCredential(c, t, key, username, password, options) ==
  LET updated == UpdateMetadata(metadata[key], t, options)
      afterUpdate == [metadata EXCEPT ![key] = updated]
  IN  /\ metadata' = [afterUpdate EXCEPT ![key] =
                        StoredMetadata(key, username, password, t, options)]
      /\ Begin(c, t, "update", key, username, password, options,
               [kind |-> "set", prompt |-> SavePrompt(os, options),
                accessControl |-> AccessControl(options)])
      /\ UNCHANGED <<os, itemsList, keychain>>

\* deleteCredential up to `await Keychain.resetGenericPassword`
DeleteCredential(c, key) ==
  /\ Begin(c, now, "delete", key, 0, 0, NoOptions,
           [kind |-> "reset", prompt |-> FALSE, accessControl |-> "null"])
  /\ UNCHANGED <<os, itemsList, metadata, keychain>>

\* getCredential up to `await Keychain.getGenericPassword`
GetCredential(c, key, useBiometrics) ==
  LET options == [useBiometrics |-> useBiometrics, useDevicePasscode |-> FALSE]
      meta == metadata[key]
  IN  /\ Begin(c, now, "get", key, 0, 0, options,
               [kind |-> "get", prompt |-> GetPrompt(meta, options),
                accessControl |-> GetAccessControl(os, meta, options)])
      /\ UNCHANGED <<os, itemsList, metadata, keychain>>

\* ------------------------------------------------ the platform keychain
\* Keychain.setGenericPassword: seals username/password under the request's
\* access control, replacing any entry of the service, or throws.  When the
\* request carries an authenticationPrompt the platform may run a challenge
\* first; a failed or cancelled challenge throws.
SetGenericPassword(request) ==
  { o \in [ok : BOOLEAN, challenge : {"none", "success", "failed", "cancelled"}] :
      /\ o.challenge # "none" => request.prompt
      /\ o.challenge \in {"failed", "cancelled"} => ~o.ok }

\* Keychain.getGenericPassword: resolves false when the service has no
\* entry; an entry sealed under an access control is released only after the
\* platform's challenge succeeded (a failed or cancelled challenge throws);
\* a read without challenge may throw for other reasons
GetGenericPassword(entry) ==
  IF entry.present /\ entry.accessControl # "null"
    THEN { [ok |-> ch = "success", challenge |-> ch] :
             ch \in {"success", "failed", "cancelled"} }
    ELSE { [ok |-> b, challenge |-> "none"] : b \in BOOLEAN }

\* Keychain.resetGenericPassword: removes the entry of the service, if any,
\* or throws
ResetGenericPassword == { [ok |-> b, challenge |-> "none"] : b \in BOOLEAN }

\* ------------------------------------- StorageService, after the await
\* The keychain operation and the continuation of its await are one step:
\* the operation touches only the keychain and the continuation only the
\* MMKV store, so any step of another call that falls between the two can be
\* moved before the operation or after the continuation.
Finish(c, outcome, value, returned) ==
  calls' = [calls EXCEPT ![c].pc = "done",
                         ![c].settled = IF outcome.ok THEN "resolved"
                                                      ELSE "rejected",
                         ![c].challenge = outcome.challenge,
                         ![c].value = value,
                         ![c].keychainOps = Append(@, calls[c].request.kind),
                         ![c].returned = returned]

\* variant: the items list is written back from the copy read when the
\* call began
SaveCredentialResumeStale(c) ==
  LET call == calls[c]
      sealed == [present |-> TRUE, username |-> call.username,
                 password |-> call.password,
                 accessControl |-> call.request.accessControl,
                 flags |-> call.options]
  IN  /\ Observed
      /\ call.pc = "awaiting" /\ call.op \in {"save", "update"}
      /\ \E outcome \in SetGenericPassword(call.request) :
           IF outcome.ok
             THEN /\ keychain' = [keychain EXCEPT ![call.key] = sealed]
                  /\ itemsList' = IF Includes(call.pre.items, call.key)
                                    THEN call.pre.items
                                    ELSE Append(call.pre.items, call.key)
                  /\ Finish(c, outcome, NoSecret, "true")
             ELSE /\ UNCHANGED <<keychain, itemsList>>
                  /\ Finish(c, outcome, NoSecret, "false")
      /\ UNCHANGED <<os, now, metadata, started, overlapped>>

\* saveCredential from the keychain write on: on success push the key unless
\* listed and return true; the catch block returns false
SaveCredentialResume(c) ==
  LET call == calls[c]
      sealed == [present |-> TRUE, username |-> call.username,
                 password |-> call.password,
                 accessControl |-> call.request.accessControl,
                 flags |-> call.options]
  IN  /\ Observed
      /\ call.pc = "awaiting" /\ call.op \in {"save", "update"}
      /\ \E outcome \in SetGenericPassword(call.request) :
           IF outcome.ok
             THEN /\ keychain' = [keychain EXCEPT ![call.key] = sealed]
                  /\ itemsList' = IF Includes(itemsList, call.key)
                                    THEN itemsList
                                    ELSE Append(itemsList, call.key)
                  /\ Finish(c, outcome, NoSecret, "true")
             ELSE /\ UNCHANGED <<keychain, itemsList>>
                  /\ Finish(c, outcome, NoSecret, "false")
      /\ UNCHANGED <<os, now, metadata, started, overlapped>>

\* variant: the metadata is deleted before the keychain reset is awaited
DeleteCredentialResumeEager(c) ==
  LET call == calls[c]
  IN  /\ Observed
      /\ call.pc = "awaiting" /\ call.op = "delete"
      /\ metadata' = [metadata EXCEPT ![call.key] = NoMeta]
      /\ \E outcome \in ResetGenericPassword :
           IF outcome.ok
             THEN /\ keychain' = [keychain EXCEPT ![call.key] = NoSecret]
                  /\ itemsList' = FilterOut(itemsList, call.key)
                  /\ Finish(c, outcome, NoSecret, "true")
             ELSE /\ UNCHANGED <<keychain, itemsList>>
                  /\ Finish(c, outcome, NoSecret, "false")
      /\ UNCHANGED <<os, now, started, overlapped>>

\* deleteCredential from the keychain reset on: on success delete the
\* metadata, filter the list and return true; the catch block returns false
DeleteCredentialResume(c) ==
  LET call == calls[c]
  IN  /\ Observed
      /\ call.pc = "awaiting" /\ call.op = "delete"
      /\ \E outcome \in ResetGenericPassword :
           IF outcome.ok
             THEN /\ keychain' = [keychain EXCEPT ![call.key] = NoSecret]
                  /\ metadata' = [metadata EXCEPT ![call.key] = NoMeta]
                  /\ itemsList' = FilterOut(itemsList, call.key)
                  /\ Finish(c, outcome, NoSecret, "true")
             ELSE /\ UNCHANGED <<keychain, metadata, itemsList>>
                  /\ Finish(c, outcome, NoSecret, "false")
      /\ UNCHANGED <<os, now, started, overlapped>>

\* variant: the catch block rethrows what the keychain read threw
GetCredentialResumeRethrows(c) ==
  LET call == calls[c]
      entry == keychain[call.key]
  IN  /\ Observed
      /\ call.pc = "awaiting" /\ call.op = "get"
      /\ \E outcome \in GetGenericPassword(entry) :
           IF outcome.ok /\ entry.present
             THEN Finish(c, outcome, entry, "credential")
             ELSE IF outcome.ok THEN Finish(c, outcome, NoSecret, "null")
                  ELSE Finish(c, outcome, NoSecret, "raised")
      /\ UNCHANGED <<os, now, itemsList, metadata, keychain, started,
                     overlapped>>

\* getCredential from the keychain read on: {...credential, metadata} when
\* the read resolved to an entry, null otherwise (also from the catch block)
GetCredentialResume(c) ==
  LET call == calls[c]
      entry == keychain[call.key]
  IN  /\ Observed
      /\ call.pc = "awaiting" /\ call.op = "get"
      /\ \E outcome \in GetGenericPassword(entry) :
           IF outcome.ok /\ entry.present
             THEN Finish(c, outcome, entry, "credential")
             ELSE Finish(c, outcome, NoSecret, "null")
      /\ UNCHANGED <<os, now, itemsList, metadata, keychain, started,
                     overlapped>>

\* the caller has consumed the result
Return(c) ==
  /\ calls[c].pc = "done"
  /\ calls' = [calls EXCEPT ![c] = IdleCall]
  /\ UNCHANGED <<os, now, itemsList, metadata, keychain, started, overlapped>>

\* ------------------------------------------------- the app at rest
\* what the device has enrolled
Devices == [biometry : BOOLEAN, passcode : BOOLEAN]

\* a slot without authenticateWithLockscreen call
NoAuth ==
  [pc |-> "idle", caller |-> "none", newValue |-> FALSE,
   fallbackToPasscode |-> TRUE, accessControl |-> "null", tempKey |-> 0,
   created |-> FALSE, read |-> "none", challenge |-> "none",
   threw |-> "none", returned |-> "none"]

\* useState defaults of LockscreenAuthScreen; securityEnabled is App's state,
\* back is what became of the last hardware back press
NoLock ==
  [mounted |-> FALSE, securityEnabled |-> FALSE, lockscreenEnabled |-> FALSE,
   appLocked |-> TRUE, authenticating |-> FALSE, authAttempts |-> 0,
   alert |-> "none", timer |-> FALSE, back |-> "none"]

NoStores ==
  [items |-> <<>>, metadata |-> [k \in Keys |-> NoMeta],
   keychain |-> [k \in Keys |-> NoSecret]]

\* useState defaults of SettingsScreen, and the position of clearAllData
NoSettings ==
  [lockscreenEnabled |-> FALSE, appSecurityEnabled |-> FALSE,
   authenticating |-> FALSE, loading |-> FALSE, alert |-> "none",
   clear |-> "idle", success |-> FALSE, remaining |-> <<>>,
   attempted |-> {}, failed |-> {}, pre |-> NoStores]

\* what the backend answered to a probe, and what the probe returned
NoVerdict ==
  [which |-> "none", imply |-> "none", biometry |-> "none", write |-> "none",
   cleanup |-> "none", returned |-> "none"]

\* no device-lock probe in flight; made counts the probes so far, last is
\* the probe that returned before
NoProbe ==
  [pc |-> "idle", which |-> "none", tempKey |-> 0, imply |-> "none",
   biometry |-> "none", write |-> "none", cleanup |-> "none",
   returned |-> "none", made |-> 0, last |-> NoVerdict]

\* the two security switches of a screen
SecurityOptions == {"biometrics", "passcode"}

\* useState defaults of HomeScreen's form; alert is the 'Credential Exists'
\* dialog, input what its 'Update' button closes over, saving the calls
\* whose result handleSave is awaiting
NoInput == [key |-> 0, username |-> 0, password |-> 0]

NoForm ==
  [useBiometrics |-> FALSE, useDevicePasscode |-> FALSE, alert |-> "none",
   input |-> NoInput, saving |-> {}]

\* a toggleSecurityOption call: its arguments, the two flags its closure
\* holds, and whether the component that made it is still mounted
NoToggle ==
  [option |-> "none", value |-> FALSE, useBiometrics |-> FALSE,
   useDevicePasscode |-> FALSE, key |-> 0, live |-> FALSE]

\* useState defaults of CredentialDetailScreen; stage is what it renders,
\* load the getCredential call it is awaiting, requiresAuth the local of
\* loadCredential
NoDetail ==
  [itemKey |-> 0, stage |-> "unmounted", load |-> 0, requiresAuth |-> FALSE,
   credential |-> NoSecret, useBiometrics |-> FALSE,
   useDevicePasscode |-> FALSE, toggles |-> [c \in Callers |-> NoToggle]]

\* the app on its Home screen, app security off, nothing in flight
AppAtHome ==
  /\ device = [biometry |-> TRUE, passcode |-> TRUE]
  /\ appSecurityEnabled = FALSE
  /\ route = "Home"
  /\ lock = NoLock
  /\ settings = NoSettings
  /\ auths = [g \in Gates |-> NoAuth]
  /\ throwaway = [t \in TempKeys |-> NoSecret]
  /\ authCount = 0
  /\ probe = NoProbe
  /\ probeKeys = {}
  /\ form = NoForm
  /\ detail = NoDetail

\* ------------------------------------------------------- specification
Init ==
  /\ os \in Platforms
  /\ now = 1
  /\ itemsList = <<>>
  /\ metadata = [k \in Keys |-> NoMeta]
  /\ keychain = [k \in Keys |-> NoSecret]
  /\ calls = [c \in Callers |-> IdleCall]
  /\ started = 0
  /\ overlapped = FALSE
  /\ AppAtHome

\* the vault is used from the Home screen; the rest of the app stands still
Next ==
  \/ \E c \in Callers, t \in {now, now + 1}, k \in Keys, u \in Users,
        p \in Passwords, o \in Options :
          SaveCredential(c, t, k, u, p, o) /\ UNCHANGED appVars
  \/ \E c \in Callers, t \in {now, now + 1}, k \in Keys, u \in Users,
        p \in Passwords, o \in Options :
          UpdateCredential(c, t, k, u, p, o) /\ UNCHANGED appVars
  \/ \E c \in Callers, k \in Keys :
          DeleteCredential(c, k) /\ UNCHANGED appVars
  \/ \E c \in Callers, k \in Keys, b \in BOOLEAN :
          GetCredential(c, k, b) /\ UNCHANGED appVars
  \/ \E c \in Callers : SaveCredentialResume(c) /\ UNCHANGED appVars
  \/ \E c \in Callers : DeleteCredentialResume(c) /\ UNCHANGED appVars
  \/ \E c \in Callers : GetCredentialResume(c) /\ UNCHANGED appVars
  \/ \E c \in Callers : Return(c) /\ UNCHANGED appVars

Spec == Init /\ [][Next]_vars

TypeOK ==
  /\ os \in Platforms
  /\ now \in 1..MaxClock
  /\ \A i \in 1..Len(itemsList) : itemsList[i] \in Keys
  /\ \A c \in Callers :
       calls[c].pc \in {"idle", "awaiting", "settled", "done"}

\* ------------------------------ saveCredential, one step per statement
\* For the order of saveCredential's writes the keychain write and the
\* continuation of its await are separate steps, and calls run one at a
\* time: a call may stop after any step.

\* Keychain.setGenericPassword of a save in flight settles: the platform has
\* sealed the entry, or has thrown
SaveCredentialSettle(c) ==
  LET call == calls[c]
      sealed == [present |-> TRUE, username |-> call.username,
                 password |-> call.password,
                 accessControl |-> call.request.accessControl,
                 flags |-> call.options]
  IN  /\ call.pc = "awaiting" /\ call.op \in {"save", "update"}
      /\ \E outcome \in SetGenericPassword(call.request) :
           /\ keychain' = IF outcome.ok
                             THEN [keychain EXCEPT ![call.key] = sealed]
                             ELSE keychain
           /\ calls' = [calls EXCEPT
                          ![c].pc = "settled",
                          ![c].settled = IF outcome.ok THEN "resolved"
                                                       ELSE "rejected",
                          ![c].challenge = outcome.challenge,
                          ![c].keychainOps = Append(@, call.request.kind)]
      /\ UNCHANGED <<os, now, itemsList, metadata, started, overlapped>>

\* variant: the list is updated before the outcome of the write is known
SaveCredentialContinueUnchecked(c) ==
  LET call == calls[c]
  IN  /\ call.pc = "settled"
      /\ itemsList' = IF Includes(itemsList, call.key)
                         THEN itemsList
                         ELSE Append(itemsList, call.key)
      /\ calls' = [calls EXCEPT
                     ![c].pc = "done",
                     ![c].returned = IF call.settled = "resolved"
                                       THEN "true" ELSE "false"]
      /\ UNCHANGED <<os, now, metadata, keychain, started, overlapped>>

\* saveCredential after the await: push the key unless listed and return
\* true, or the catch block
SaveCredentialContinue(c) ==
  LET call == calls[c]
  IN  /\ call.pc = "settled"
      /\ IF call.settled = "resolved"
           THEN /\ itemsList' = IF Includes(itemsList, call.key)
                                   THEN itemsList
                                   ELSE Append(itemsList, call.key)
                /\ calls' = [calls EXCEPT ![c].pc = "done",
                                          ![c].returned = "true"]
           ELSE /\ UNCHANGED itemsList
                /\ calls' = [calls EXCEPT ![c].pc = "done",
                                          ![c].returned = "false"]
      /\ UNCHANGED <<os, now, metadata, keychain, started, overlapped>>

\* the caller awaits each call before it makes the next
Sequential == \A c \in Callers : calls[c].pc = "idle"

NextSteps ==
  \/ \E c \in Callers, t \in {now, now + 1}, k \in Keys, u \in Users,
        p \in Passwords, o \in Options :
          Sequential /\ SaveCredential(c, t, k, u, p, o) /\ UNCHANGED appVars
  \/ \E c \in Callers, t \in {now, now + 1}, k \in Keys, u \in Users,
        p \in Passwords, o \in Options :
          Sequential /\ UpdateCredential(c, t, k, u, p, o)
                     /\ UNCHANGED appVars
  \/ \E c \in Callers, k \in Keys :
          Sequential /\ DeleteCredential(c, k) /\ UNCHANGED appVars
  \/ \E c \in Callers : SaveCredentialSettle(c) /\ UNCHANGED appVars
  \/ \E c \in Callers : SaveCredentialContinue(c) /\ UNCHANGED appVars
  \/ \E c \in Callers : DeleteCredentialResume(c) /\ UNCHANGED appVars
  \/ \E c \in Callers : Return(c) /\ UNCHANGED appVars

SpecSteps == Init /\ [][NextSteps]_vars

\* ================================================ LockscreenUtils
\* isLockscreenEnabled: iOS asks canImplyAuthentication; Android takes an
\* enrolled biometry as proof and otherwise probes the credential store
\* (_hasDeviceCredentialStore seals a DEVICE_PASSCODE entry, which the
\* platform refuses without a secure lock screen); every throw is false
IsLockscreenEnabled(platform, dev) ==
  IF platform = "ios" THEN {dev.biometry \/ dev.passcode, FALSE}
  ELSE IF dev.biometry THEN {TRUE, FALSE}
  ELSE IF dev.passcode THEN {TRUE, FALSE}
  ELSE {FALSE}

\* variant: the access control follows the flag alone
ThrowawayAccessControlFlagOnly(platform, fallbackToPasscode, available) ==
  IF fallbackToPasscode THEN "BIOMETRY_ANY_OR_DEVICE_PASSCODE"
  ELSE "BIOMETRY_ANY"

\* accessControl of the throwaway entry
ThrowawayAccessControl(platform, fallbackToPasscode, available) ==
  IF fallbackToPasscode THEN "BIOMETRY_ANY_OR_DEVICE_PASSCODE"
  ELSE IF platform = "android" /\ ~available THEN "DEVICE_PASSCODE"
  ELSE "BIOMETRY_ANY"

\* getBiometricInfo().available: !!biometryType, false when the query throws
GetBiometricInfo(dev) == {dev.biometry, FALSE}

\* variant: the result of the read-back is not looked at
AuthResultAlways(read) == TRUE

\* return !!result
AuthResult(read) == read = "credentials"

\* authenticateWithLockscreen up to `await Keychain.setGenericPassword`:
\* the access control, tempKey = auth_check_<time>; the lowest free slot
AuthBegin(g, t, caller, newValue, fallbackToPasscode) ==
  /\ t \in now..MaxClock
  /\ now' = t
  /\ authCount < (IF caller = "lock" THEN MaxAttempts ELSE MaxAuths)
  /\ authCount' = authCount + 1
  /\ auths[g].pc = "idle"
  /\ \A h \in Gates : h < g => auths[h].pc # "idle"
  /\ \E available \in GetBiometricInfo(device) :
       auths' = [auths EXCEPT ![g] =
         [NoAuth EXCEPT !.pc = "set", !.caller = caller,
            !.newValue = newValue,
            !.fallbackToPasscode = fallbackToPasscode,
            !.accessControl =
               ThrowawayAccessControl(os, fallbackToPasscode, available),
            !.tempKey = t]]

\* the throwaway write settles: the entry is sealed, or the write throws
\* and the catch block returns false
AuthSetSettled(g) ==
  LET auth == auths[g]
      request == [kind |-> "set", prompt |-> TRUE,
                  accessControl |-> auth.accessControl]
      sealed == [NoSecret EXCEPT !.present = TRUE,
                                 !.accessControl = auth.accessControl]
  IN  /\ auth.pc = "set"
      /\ \E outcome \in SetGenericPassword(request) :
           IF outcome.ok
             THEN /\ throwaway' = [throwaway EXCEPT ![auth.tempKey] = sealed]
                  /\ auths' = [auths EXCEPT ![g].pc = "get",
                                            ![g].created = TRUE]
             ELSE /\ UNCHANGED throwaway
                  /\ auths' = [auths EXCEPT ![g].pc = "done",
                                            ![g].threw = "set",
                                            ![g].returned = "false"]
      /\ UNCHANGED <<os, now, vaultVars, device, probeVars, formVars,
                     screenVars, authCount>>

\* the read-back settles: credentials after a successful challenge, false
\* when the service has no entry, or a throw (challenge failed or cancelled,
\* hardware error), which skips the cleanup and returns false
AuthGetSettled(g) ==
  LET auth == auths[g]
      entry == throwaway[auth.tempKey]
  IN  /\ auth.pc = "get"
      /\ \E outcome \in GetGenericPassword(entry) :
           auths' = [auths EXCEPT
             ![g].challenge = outcome.challenge,
             ![g].read = IF ~outcome.ok THEN "threw"
                         ELSE IF entry.present THEN "credentials"
                         ELSE "false",
             ![g].threw = IF outcome.ok THEN "none" ELSE "get",
             ![g].pc = IF outcome.ok THEN "reset" ELSE "done",
             ![g].returned = IF outcome.ok THEN "none" ELSE "false"]
      /\ UNCHANGED <<os, now, vaultVars, device, probeVars, formVars,
                     screenVars, throwaway, authCount>>

\* the cleanup settles: the entry is gone and the call returns !!result, or
\* the reset throws and the catch block returns false
AuthResetSettled(g) ==
  LET auth == auths[g]
  IN  /\ auth.pc = "reset"
      /\ \E outcome \in ResetGenericPassword :
           IF outcome.ok
             THEN /\ throwaway' = [throwaway EXCEPT ![auth.tempKey] = NoSecret]
                  /\ auths' = [auths EXCEPT
                       ![g].pc = "done",
                       ![g].returned = IF AuthResult(auth.read)
                                         THEN "true" ELSE "false"]
             ELSE /\ UNCHANGED throwaway
                  /\ auths' = [auths EXCEPT ![g].pc = "done",
                                            ![g].threw = "reset",
                                            ![g].returned = "false"]
      /\ UNCHANGED <<os, now, vaultVars, device, probeVars, formVars,
                     screenVars, authCount>>

\* the awaiting caller of a call that has returned
Returned(g, caller) == auths[g].pc = "done" /\ auths[g].caller = caller

\* ============================================ App, LockscreenAuthScreen
\* variant: the initial route is Home whatever the flag
LaunchAtHome ==
  /\ route = "Launch"
  /\ lock' = [lock EXCEPT !.securityEnabled = appSecurityEnabled]
  /\ route' = "Home"
  /\ UNCHANGED <<os, now, vaultVars, device, probeVars, formVars,
                 appSecurityEnabled, settings, auths, throwaway, authCount>>

\* App reads the flag once and picks the initial route
Launch ==
  /\ route = "Launch"
  /\ lock' = [lock EXCEPT !.securityEnabled = appSecurityEnabled]
  /\ route' = IF appSecurityEnabled THEN "Auth" ELSE "Home"
  /\ UNCHANGED <<os, now, vaultVars, device, probeVars, formVars,
                 appSecurityEnabled, settings, auths, throwaway, authCount>>

\* authenticateUser up to its await: the guard reads `authenticating` as the
\* closure captured it
AuthenticateUser(g, t, captured, state) ==
  /\ ~captured
  /\ AuthBegin(g, t, "lock", FALSE, TRUE)
  /\ lock' = [state EXCEPT !.authenticating = TRUE, !.authAttempts = @ + 1]

\* variant: the handler never consumes the press
OnBackPressDefault(appLocked) == FALSE

\* onBackPress: true (the press is consumed) if appLocked
OnBackPress(appLocked) == appLocked

\* a hardware back press while the gating screen has the focus: consumed,
\* or left to the default handler, which leaves the app's only screen
BackPress ==
  /\ route = "Auth"
  /\ IF OnBackPress(lock.appLocked)
       THEN /\ lock' = [lock EXCEPT !.back = "consumed"]
            /\ UNCHANGED route
       ELSE /\ lock' = [lock EXCEPT !.back = "default"]
            /\ route' = "Exited"
  /\ UNCHANGED <<os, now, vaultVars, device, probeVars, formVars,
                 appSecurityEnabled, settings, auths, throwaway, authCount>>

\* the mount effect checkAppSecurity: without the flag go to Home; with it
\* probe the lock screen, then warn or start authenticating
CheckAppSecurity(g, t) ==
  /\ route = "Auth" /\ ~lock.mounted
  /\ IF ~appSecurityEnabled
       THEN /\ lock' = [lock EXCEPT !.mounted = TRUE, !.appLocked = FALSE]
            /\ route' = "Home"
            /\ UNCHANGED <<now, auths, authCount>>
       ELSE \E lockEnabled \in IsLockscreenEnabled(os, device) :
              IF lockEnabled
                THEN /\ AuthenticateUser(g, t, lock.authenticating,
                          [lock EXCEPT !.mounted = TRUE,
                                       !.lockscreenEnabled = TRUE])
                     /\ UNCHANGED route
                ELSE /\ lock' = [lock EXCEPT !.mounted = TRUE,
                                             !.lockscreenEnabled = FALSE,
                                             !.alert = "warning"]
                     /\ UNCHANGED <<now, route, auths, authCount>>
  /\ UNCHANGED <<os, vaultVars, device, probeVars, formVars,
                 appSecurityEnabled, settings, throwaway>>

\* 'Proceed Anyway' on the security warning: proceedToApp
ProceedAnyway ==
  /\ lock.alert = "warning"
  /\ lock' = [lock EXCEPT !.alert = "none"]
  /\ route' = "Home"
  /\ UNCHANGED <<os, now, vaultVars, device, probeVars, formVars,
                 appSecurityEnabled, settings, auths, throwaway, authCount>>

\* the button of the gating screen, disabled while authenticating
PressAuthenticate(g, t) ==
  /\ route = "Auth" /\ lock.mounted /\ lock.alert = "none"
  /\ ~lock.authenticating
  /\ AuthenticateUser(g, t, lock.authenticating, lock)
  /\ UNCHANGED <<os, vaultVars, device, probeVars, formVars,
                 appSecurityEnabled, route, settings, throwaway>>

\* 'Try Again' on Android: setTimeout(() => authenticateUser(), 500)
TryAgain ==
  /\ lock.alert = "retry"
  /\ lock' = [lock EXCEPT !.alert = "none", !.timer = TRUE]
  /\ UNCHANGED <<os, now, vaultVars, device, probeVars, formVars,
                 appSecurityEnabled, route, settings, auths, throwaway,
                 authCount>>

\* the timer fires: authenticateUser of the render in which the failed
\* attempt began, whose `authenticating` is false
RetryTimer(g, t) ==
  /\ lock.timer
  /\ AuthenticateUser(g, t, FALSE, [lock EXCEPT !.timer = FALSE])
  /\ UNCHANGED <<os, vaultVars, device, probeVars, formVars,
                 appSecurityEnabled, route, settings, throwaway>>

\* 'Exit App' on Android, 'OK' on iOS: the alert goes, the screen stays
DismissAlert ==
  /\ lock.alert \in {"retry", "failed", "error", "escalation"}
  /\ lock' = [lock EXCEPT !.alert = "none"]
  /\ UNCHANGED <<os, now, vaultVars, device, probeVars, formVars,
                 appSecurityEnabled, route, settings, auths, throwaway,
                 authCount>>

\* the threshold of the catch block: `if (authAttempts >= 3)`
AttemptThreshold == 3

\* the alert of the catch block of authenticateUser
CatchAlert(authAttempts) ==
  IF authAttempts >= AttemptThreshold THEN "escalation" ELSE "error"

\* authenticateUser after its await: unlock and proceedToApp on true; on
\* false reset `authenticating` and offer the retry; the catch block runs
\* when the awaited call throws (its authAttempts is the closure's, which
\* is at most the state's)
LockContinue(g, success) ==
  /\ Returned(g, "lock")
  /\ auths' = [auths EXCEPT ![g] = NoAuth]
  /\ IF auths[g].returned = "raised"
       THEN /\ lock' = [lock EXCEPT !.authenticating = FALSE,
                                    !.alert = CatchAlert(lock.authAttempts)]
            /\ UNCHANGED route
       ELSE IF success
         THEN /\ lock' = [lock EXCEPT !.appLocked = FALSE]
              /\ route' = "Home"
         ELSE /\ lock' = [lock EXCEPT
                   !.authenticating = FALSE,
                   !.alert = IF os = "android" THEN "retry" ELSE "failed"]
              /\ UNCHANGED route
  /\ UNCHANGED <<os, now, vaultVars, device, probeVars, formVars,
                 appSecurityEnabled, settings, throwaway, authCount>>

\* variant: the result of the authentication is not looked at
LockAuthReturnedUnchecked(g) == LockContinue(g, TRUE)

\* variant: a failed attempt leaves `authenticating` set
LockAuthReturnedStuck(g) ==
  /\ Returned(g, "lock")
  /\ auths' = [auths EXCEPT ![g] = NoAuth]
  /\ IF auths[g].returned = "true"
       THEN /\ lock' = [lock EXCEPT !.appLocked = FALSE]
            /\ route' = "Home"
       ELSE /\ lock' = [lock EXCEPT
                 !.alert = IF os = "android" THEN "retry" ELSE "failed"]
            /\ UNCHANGED route
  /\ UNCHANGED <<os, now, vaultVars, device, probeVars, formVars,
                 appSecurityEnabled, settings, throwaway, authCount>>

\* variant: a failed attempt navigates back to the gating screen
LockAuthReturnedRelock(g) ==
  /\ Returned(g, "lock")
  /\ auths' = [auths EXCEPT ![g] = NoAuth]
  /\ IF auths[g].returned = "true"
       THEN /\ lock' = [lock EXCEPT !.appLocked = FALSE]
            /\ route' = "Home"
       ELSE /\ lock' = [lock EXCEPT
                 !.appLocked = TRUE, !.authenticating = FALSE,
                 !.alert = IF os = "android" THEN "retry" ELSE "failed"]
            /\ route' = "Auth"
  /\ UNCHANGED <<os, now, vaultVars, device, probeVars, formVars,
                 appSecurityEnabled, settings, throwaway, authCount>>

LockAuthReturned(g) == LockContinue(g, auths[g].returned = "true")

\* ====================================================== SettingsScreen
\* HomeScreen's settings button, then the mount effect loadSettings
OpenSettings ==
  /\ route = "Home"
  /\ route' = "Settings"
  /\ \E lockEnabled \in IsLockscreenEnabled(os, device) :
       settings' = [settings EXCEPT
                      !.lockscreenEnabled = lockEnabled,
                      !.appSecurityEnabled = appSecurityEnabled,
                      !.authenticating = FALSE, !.loading = FALSE,
                      !.alert = "none"]
  /\ UNCHANGED <<os, now, vaultVars, device, probeVars, formVars,
                 appSecurityEnabled, lock, auths, throwaway, authCount>>

\* the back button of the settings header
GoBack ==
  /\ route = "Settings" /\ ~settings.loading /\ settings.alert = "none"
  /\ route' = "Home"
  /\ UNCHANGED <<os, now, vaultVars, device, probeVars, formVars,
                 appSecurityEnabled, lock, settings, auths, throwaway,
                 authCount>>

\* toggleAppSecurity(value) from the switch, which shows the state's value
\* and is replaced by a spinner while authenticating: warn when turning on
\* without lock screen, else authenticateAndToggle up to its await
ToggleAppSecurity(g, t) ==
  LET value == ~settings.appSecurityEnabled
  IN  /\ route = "Settings" /\ ~settings.loading /\ settings.alert = "none"
      /\ ~settings.authenticating
      /\ IF value /\ ~settings.lockscreenEnabled
           THEN /\ settings' = [settings EXCEPT !.alert = "warning"]
                /\ UNCHANGED <<now, auths, authCount>>
           ELSE /\ AuthBegin(g, t, "toggle", value, TRUE)
                /\ settings' = [settings EXCEPT !.authenticating = TRUE]
      /\ UNCHANGED <<os, vaultVars, device, probeVars, formVars,
                     appSecurityEnabled, route, lock, throwaway>>

\* saveSecuritySetting(value)
SaveSecuritySetting(value, state) ==
  /\ appSecurityEnabled' = value
  /\ settings' = [state EXCEPT !.appSecurityEnabled = value]

\* 'Enable Anyway' on the security warning
EnableAnyway ==
  /\ settings.alert = "warning"
  /\ SaveSecuritySetting(TRUE, [settings EXCEPT !.alert = "none"])
  /\ UNCHANGED <<os, now, vaultVars, device, probeVars, formVars, route, lock,
                 auths, throwaway, authCount>>

\* 'Cancel' on the security warning
CancelWarning ==
  /\ settings.alert = "warning"
  /\ settings' = [settings EXCEPT !.alert = "none"]
  /\ UNCHANGED <<os, now, vaultVars, device, probeVars, formVars,
                 appSecurityEnabled, route, lock, auths, throwaway,
                 authCount>>

\* authenticateAndToggle after its await, with its finally block
ToggleContinue(g, success) ==
  LET state == [settings EXCEPT !.authenticating = FALSE]
  IN  /\ Returned(g, "toggle")
      /\ auths' = [auths EXCEPT ![g] = NoAuth]
      /\ IF success
           THEN SaveSecuritySetting(auths[g].newValue, state)
           ELSE settings' = state /\ UNCHANGED appSecurityEnabled
      /\ UNCHANGED <<os, now, vaultVars, device, probeVars, formVars, route,
                     lock, throwaway, authCount>>

\* variant: the result of the authentication is not looked at
ToggleAuthReturnedUnchecked(g) == ToggleContinue(g, TRUE)

ToggleAuthReturned(g) == ToggleContinue(g, auths[g].returned = "true")

\* the three stores as clearAllData finds them
Stores == [items |-> itemsList, metadata |-> metadata, keychain |-> keychain]

\* clearAllData, 'Delete Everything': up to the await of the authentication
ClearAllData(g, t) ==
  /\ route = "Settings" /\ ~settings.loading /\ settings.alert = "none"
  /\ settings.clear \in {"idle", "aborted"}
  /\ AuthBegin(g, t, "clear", FALSE, TRUE)
  /\ settings' = [settings EXCEPT !.loading = TRUE, !.clear = "authenticating",
                                  !.success = FALSE,
                                  !.remaining = <<>>, !.attempted = {},
                                  !.failed = {}, !.pre = Stores]
  /\ UNCHANGED <<os, vaultVars, device, probeVars, formVars,
                 appSecurityEnabled, route, lock, throwaway>>

\* clearAllData after the authentication: return when it failed, else read
\* the items list
ClearContinue(g, success) ==
  /\ Returned(g, "clear")
  /\ auths' = [auths EXCEPT ![g] = NoAuth]
  /\ settings' = IF success
                   THEN [settings EXCEPT !.clear = "deleting",
                                         !.success = auths[g].returned = "true",
                                         !.remaining = itemsList]
                   ELSE [settings EXCEPT !.clear = "aborted",
                                         !.success = auths[g].returned = "true",
                                         !.loading = FALSE]
  /\ UNCHANGED <<os, now, vaultVars, device, probeVars, formVars,
                 appSecurityEnabled, route, lock, throwaway, authCount>>

\* variant: the result of the authentication is not looked at
ClearAuthReturnedUnchecked(g) == ClearContinue(g, TRUE)

ClearAuthReturned(g) == ClearContinue(g, auths[g].returned = "true")

\* one turn of the loop: await StorageService.deleteCredential(item), whose
\* result is dropped
ClearDelete ==
  LET item == Head(settings.remaining)
  IN  /\ settings.clear = "deleting" /\ settings.remaining # <<>>
      /\ \E outcome \in ResetGenericPassword :
           IF outcome.ok
             THEN /\ keychain' = [keychain EXCEPT ![item] = NoSecret]
                  /\ metadata' = [metadata EXCEPT ![item] = NoMeta]
                  /\ itemsList' = FilterOut(itemsList, item)
                  /\ settings' = [settings EXCEPT
                                    !.remaining = Tail(@),
                                    !.attempted = @ \cup {item}]
             ELSE /\ UNCHANGED <<keychain, metadata, itemsList>>
                  /\ settings' = [settings EXCEPT
                                    !.remaining = Tail(@),
                                    !.attempted = @ \cup {item},
                                    !.failed = @ \cup {item}]
      /\ UNCHANGED <<os, now, calls, started, overlapped, device, probeVars,
                     formVars, appSecurityEnabled, route, lock, auths,
                     throwaway, authCount>>

\* after the loop: StorageService.saveItemsList([]), 'Data Cleared'
ClearFinish ==
  /\ settings.clear = "deleting" /\ settings.remaining = <<>>
  /\ itemsList' = <<>>
  /\ settings' = [settings EXCEPT !.clear = "finished", !.loading = FALSE]
  /\ UNCHANGED <<os, now, metadata, keychain, calls, started, overlapped,
                 device, probeVars, formVars, appSecurityEnabled, route, lock,
                 auths, throwaway, authCount>>

\* 'OK' on 'Data Cleared': navigation.navigate('Home')
ClearOk ==
  /\ settings.clear = "finished"
  /\ settings' = [settings EXCEPT !.clear = "idle"]
  /\ route' = "Home"
  /\ UNCHANGED <<os, now, vaultVars, device, probeVars, formVars,
                 appSecurityEnabled, lock, auths, throwaway, authCount>>

\* ---------------------------------------- specifications of the app
\* nothing of the app is in flight
AppIdle ==
  /\ calls = [c \in Callers |-> IdleCall]
  /\ started = 0
  /\ overlapped = FALSE
  /\ settings = NoSettings
  /\ auths = [g \in Gates |-> NoAuth]
  /\ throwaway = [t \in TempKeys |-> NoSecret]
  /\ authCount = 0
  /\ probe = NoProbe
  /\ probeKeys = {}
  /\ form = NoForm
  /\ detail = NoDetail

\* the app is launched, with the flag as an earlier run left it
InitLock ==
  /\ os \in Platforms
  /\ now = 1
  /\ itemsList = <<>>
  /\ metadata = [k \in Keys |-> NoMeta]
  /\ keychain = [k \in Keys |-> NoSecret]
  /\ device \in Devices
  /\ appSecurityEnabled \in BOOLEAN
  /\ route = "Launch"
  /\ lock = NoLock
  /\ AppIdle

NextLock ==
  \/ Launch
  \/ \E g \in Gates, t \in {now, now + 1} : CheckAppSecurity(g, t)
  \/ ProceedAnyway
  \/ \E g \in Gates, t \in {now, now + 1} : PressAuthenticate(g, t)
  \/ TryAgain
  \/ \E g \in Gates, t \in {now, now + 1} : RetryTimer(g, t)
  \/ DismissAlert
  \/ BackPress
  \/ \E g \in Gates : LockAuthReturned(g)
  \/ \E g \in Gates : AuthSetSettled(g)
  \/ \E g \in Gates : AuthGetSettled(g)
  \/ \E g \in Gates : AuthResetSettled(g)

SpecLock == InitLock /\ [][NextLock]_vars

\* every keychain promise of the gateway settles, and the continuation of a
\* settled await is run by the JavaScript event loop
FairLock ==
  /\ SpecLock
  /\ \A g \in Gates :
       /\ WF_vars(AuthSetSettled(g))
       /\ WF_vars(AuthGetSettled(g))
       /\ WF_vars(AuthResetSettled(g))
       /\ WF_vars(LockAuthReturned(g))

\* a record as a successful saveCredential(key, 1, 1, {}) leaves it
SavedMeta == SaveMetadata(1, NoOptions)

SavedSecret ==
  [present |-> TRUE, username |-> 1, password |-> 1,
   accessControl |-> AccessControl(NoOptions), flags |-> NoOptions]

\* LockscreenAuthScreen as it is left for Home: never mounted without the
\* flag, else after a successful authentication
LeftForHome(securityEnabled) ==
  IF securityEnabled
    THEN [NoLock EXCEPT !.mounted = TRUE, !.securityEnabled = TRUE,
                        !.lockscreenEnabled = TRUE, !.appLocked = FALSE,
                        !.authenticating = TRUE, !.authAttempts = 1]
    ELSE NoLock

\* the app is on Home, the vault holds the first n keys, saved in order
InitSettings ==
  /\ os \in Platforms
  /\ now = 1
  /\ \E n \in 0..NumKeys :
       /\ itemsList = [i \in 1..n |-> i]
       /\ metadata = [k \in Keys |-> IF k <= n THEN SavedMeta ELSE NoMeta]
       /\ keychain = [k \in Keys |-> IF k <= n THEN SavedSecret ELSE NoSecret]
  /\ device \in Devices
  /\ appSecurityEnabled \in BOOLEAN
  /\ route = "Home"
  /\ lock = LeftForHome(appSecurityEnabled)
  /\ AppIdle

NextSettings ==
  \/ OpenSettings
  \/ GoBack
  \/ \E g \in Gates, t \in {now, now + 1} : ToggleAppSecurity(g, t)
  \/ EnableAnyway
  \/ CancelWarning
  \/ \E g \in Gates : ToggleAuthReturned(g)
  \/ \E g \in Gates, t \in {now, now + 1} : ClearAllData(g, t)
  \/ \E g \in Gates : ClearAuthReturned(g)
  \/ ClearDelete
  \/ ClearFinish
  \/ ClearOk
  \/ \E g \in Gates : AuthSetSettled(g)
  \/ \E g \in Gates : AuthGetSettled(g)
  \/ \E g \in Gates : AuthResetSettled(g)

SpecSettings == InitSettings /\ [][NextSettings]_vars

\* ------------------------------ authenticateWithLockscreen on its own
\* a caller of the exported gateway, with either value of the option
Authenticate(g, t, fallbackToPasscode) ==
  /\ AuthBegin(g, t, "direct", FALSE, fallbackToPasscode)
  /\ UNCHANGED <<os, vaultVars, device, probeVars, formVars, screenVars,
                 throwaway>>

\* the caller has taken the returned boolean
AuthReturn(g) ==
  /\ Returned(g, "direct")
  /\ auths' = [auths EXCEPT ![g] = NoAuth]
  /\ UNCHANGED <<os, now, vaultVars, device, probeVars, formVars, screenVars,
                 throwaway, authCount>>

InitGateway ==
  /\ os \in Platforms
  /\ now = 1
  /\ itemsList = <<>>
  /\ metadata = [k \in Keys |-> NoMeta]
  /\ keychain = [k \in Keys |-> NoSecret]
  /\ device \in Devices
  /\ appSecurityEnabled = FALSE
  /\ route = "Home"
  /\ lock = NoLock
  /\ AppIdle

NextGateway ==
  \/ \E g \in Gates, t \in {now, now + 1}, fallbackToPasscode \in BOOLEAN :
       Authenticate(g, t, fallbackToPasscode)
  \/ \E g \in Gates : AuthSetSettled(g)
  \/ \E g \in Gates : AuthGetSettled(g)
  \/ \E g \in Gates : AuthResetSettled(g)
  \/ \E g \in Gates : AuthReturn(g)

SpecGateway == InitGateway /\ [][NextGateway]_vars

\* ------------------------------------------ the device-lock probes
\* LockscreenUtils.isLockscreenEnabled (with _hasDeviceCredentialStore) and
\* StorageService.checkDevicePasscodeAvailability
Probes == {"isLockscreenEnabled", "checkDevicePasscodeAvailability"}

\* Keychain.canImplyAuthentication: whether something is enrolled, or throws
CanImplyAuthentication(dev) ==
  {IF dev.biometry \/ dev.passcode THEN "true" ELSE "false", "throws"}

\* Keychain.getSupportedBiometryType: a type, null, or throws
GetSupportedBiometryType(dev) ==
  {IF dev.biometry THEN "type" ELSE "null", "throws"}

\* Keychain.setGenericPassword under DEVICE_PASSCODE: without a secure lock
\* screen the platform refuses the key; with one the write resolves, throws
\* 'No fingerprint enrolled', or throws something else
ProbeWrite(dev) ==
  IF dev.passcode THEN {"resolved", "noneEnrolled", "other"} ELSE {"other"}

\* Keychain.resetGenericPassword of the probe's service
ProbeCleanup == {"resolved", "other"}

\* the catch block of _hasDeviceCredentialStore
HasDeviceCredentialStoreCatch(message) == message = "noneEnrolled"

\* the inner catch block of checkDevicePasscodeAvailability
CheckDevicePasscodeCatch(message) == FALSE

ProbeCatch(which, message) ==
  IF which = "isLockscreenEnabled"
    THEN HasDeviceCredentialStoreCatch(message)
    ELSE CheckDevicePasscodeCatch(message)

Bool(b) == IF b THEN "true" ELSE "false"

\* a probe is called: iOS asks canImplyAuthentication, Android first asks
\* for the biometry type
ProbeBegin(which) ==
  /\ probe.pc = "idle" /\ probe.made < MaxProbes
  /\ probe' = [NoProbe EXCEPT !.pc = IF os = "ios" THEN "imply" ELSE "biometry",
                              !.which = which, !.made = probe.made + 1,
                              !.last = probe.last]
  /\ UNCHANGED <<os, now, vaultVars, device, formVars, probeKeys, screenVars,
                 auths, throwaway, authCount>>

\* iOS: the answer is returned as it is; a throw is false
ProbeImplySettled ==
  /\ probe.pc = "imply"
  /\ \E answer \in CanImplyAuthentication(device) :
       probe' = [probe EXCEPT !.pc = "done", !.imply = answer,
                   !.returned = IF answer = "throws" THEN "false" ELSE answer]
  /\ UNCHANGED <<os, now, vaultVars, device, formVars, probeKeys, screenVars,
                 auths, throwaway, authCount>>

\* Android: a biometry type is taken as proof, a throw is false, and
\* otherwise the throwaway key <prefix>_<time> is written under DEVICE_PASSCODE
ProbeBiometrySettled(t) ==
  /\ probe.pc = "biometry"
  /\ t \in now..MaxClock
  /\ \E answer \in GetSupportedBiometryType(device) :
       /\ probe' = [probe EXCEPT
            !.biometry = answer,
            !.pc = IF answer = "null" THEN "write" ELSE "done",
            !.tempKey = IF answer = "null" THEN t ELSE 0,
            !.returned = IF answer = "null" THEN "none"
                         ELSE Bool(answer = "type")]
       /\ now' = IF answer = "null" THEN t ELSE now
  /\ UNCHANGED <<os, vaultVars, device, formVars, probeKeys, screenVars,
                 auths, throwaway, authCount>>

\* the write of the throwaway key settles: on to the cleanup, or into the
\* catch block with the error's message
ProbeWriteSettled ==
  /\ probe.pc = "write"
  /\ \E outcome \in ProbeWrite(device) :
       IF outcome = "resolved"
         THEN /\ probeKeys' = probeKeys \cup {probe.tempKey}
              /\ probe' = [probe EXCEPT !.write = outcome, !.pc = "cleanup"]
         ELSE /\ UNCHANGED probeKeys
              /\ probe' = [probe EXCEPT
                   !.write = outcome, !.pc = "done",
                   !.returned = Bool(ProbeCatch(probe.which, outcome))]
  /\ UNCHANGED <<os, now, vaultVars, device, formVars, screenVars, auths,
                 throwaway, authCount>>

\* the cleanup settles: true, or into the same catch block
ProbeCleanupSettled ==
  /\ probe.pc = "cleanup"
  /\ \E outcome \in ProbeCleanup :
       IF outcome = "resolved"
         THEN /\ probeKeys' = probeKeys \ {probe.tempKey}
              /\ probe' = [probe EXCEPT !.cleanup = outcome, !.pc = "done",
                                        !.returned = "true"]
         ELSE /\ UNCHANGED probeKeys
              /\ probe' = [probe EXCEPT
                   !.cleanup = outcome, !.pc = "done",
                   !.returned = Bool(ProbeCatch(probe.which, outcome))]
  /\ UNCHANGED <<os, now, vaultVars, device, formVars, screenVars, auths,
                 throwaway, authCount>>

Verdict(p) ==
  [which |-> p.which, imply |-> p.imply, biometry |-> p.biometry,
   write |-> p.write, cleanup |-> p.cleanup, returned |-> p.returned]

\* the caller has taken the returned boolean
ProbeReturn ==
  /\ probe.pc = "done"
  /\ probe' = [NoProbe EXCEPT !.made = probe.made, !.last = Verdict(probe)]
  /\ UNCHANGED <<os, now, vaultVars, device, formVars, probeKeys, screenVars,
                 auths, throwaway, authCount>>

NextProbe ==
  \/ \E which \in Probes : ProbeBegin(which)
  \/ ProbeImplySettled
  \/ \E t \in {now, now + 1} : ProbeBiometrySettled(t)
  \/ ProbeWriteSettled
  \/ ProbeCleanupSettled
  \/ ProbeReturn

SpecProbe == InitGateway /\ [][NextProbe]_vars

\* ------------------------------------------ getCredential on its own
\* what the three stores can hold for a key once the calls on it have
\* returned: nothing, a whole record, metadata alone (a save whose keychain
\* write threw), or a listed secret without metadata (a delete that
\* completed while a save of the key was awaiting its keychain write)
Shapes == {"none", "record", "metadata", "secret"}

InitRead ==
  /\ os \in Platforms
  /\ now = 1
  /\ \E shape \in [Keys -> Shapes] :
       /\ itemsList = SelectSeq([i \in 1..NumKeys |-> i],
                         LAMBDA k : shape[k] \in {"record", "secret"})
       /\ metadata = [k \in Keys |->
            IF shape[k] \in {"record", "metadata"} THEN SavedMeta ELSE NoMeta]
       /\ keychain = [k \in Keys |->
            IF shape[k] \in {"record", "secret"} THEN SavedSecret ELSE NoSecret]
  /\ calls = [c \in Callers |-> IdleCall]
  /\ started = 0
  /\ overlapped = FALSE
  /\ AppAtHome

NextRead ==
  \/ \E c \in Callers, k \in Keys, b \in BOOLEAN :
          GetCredential(c, k, b) /\ UNCHANGED appVars
  \/ \E c \in Callers : GetCredentialResume(c) /\ UNCHANGED appVars
  \/ \E c \in Callers : Return(c) /\ UNCHANGED appVars

SpecRead == InitRead /\ [][NextRead]_vars

\* --------------------------- HomeScreen's form, CredentialDetailScreen
\* the part of the app that stands still while the two screens are used
standVars == <<device, probeVars, appSecurityEnabled, lock, settings, auths,
               throwaway, authCount>>

\* biometricsAvailable / passcodeAvailable: a switch is rendered only when
\* its probe answered true
Offered(option) ==
  IF option = "biometrics" THEN device.biometry
                           ELSE device.biometry \/ device.passcode

\* the flag a switch shows
SwitchValue(state, option) ==
  IF option = "biometrics" THEN state.useBiometrics
                           ELSE state.useDevicePasscode

\* the onValueChange handlers of HomeScreen's two switches
FormSwitch(option) ==
  LET value == ~SwitchValue(form, option)
  IN  /\ route = "Home" /\ form.alert = "none"
      /\ Offered(option)
      /\ form' = IF option = "biometrics"
                   THEN [form EXCEPT !.useBiometrics = value,
                           !.useDevicePasscode = IF value THEN FALSE ELSE @]
                   ELSE [form EXCEPT !.useDevicePasscode = value,
                           !.useBiometrics = IF value THEN FALSE ELSE @]
      /\ UNCHANGED <<os, now, vaultVars, route, detail, standVars>>

\* clearForm
ClearedForm(state) ==
  [state EXCEPT !.useBiometrics = FALSE, !.useDevicePasscode = FALSE]

ClearForm ==
  /\ route = "Home" /\ form.alert = "none"
  /\ form' = ClearedForm(form)
  /\ UNCHANGED <<os, now, vaultVars, route, detail, standVars>>

FormOptions ==
  [useBiometrics |-> form.useBiometrics,
   useDevicePasscode |-> form.useDevicePasscode]

\* handleSave with valid input: a listed key raises 'Credential Exists',
\* a new one goes to saveCredential with the form's two flags
HandleSave(c, t, key, username, password) ==
  /\ route = "Home" /\ form.alert = "none"
  /\ IF Includes(itemsList, key)
       THEN /\ Observed
            /\ form' = [form EXCEPT !.alert = "exists",
                 !.input = [key |-> key, username |-> username,
                            password |-> password]]
            /\ UNCHANGED <<os, now, vaultVars>>
       ELSE /\ SaveCredential(c, t, key, username, password, FormOptions)
            /\ form' = [form EXCEPT !.saving = @ \cup {c}]
  /\ UNCHANGED <<route, detail, standVars>>

\* 'Credential Exists' -> 'Cancel'
FormAlertCancel ==
  /\ form.alert = "exists"
  /\ form' = [form EXCEPT !.alert = "none", !.input = NoInput]
  /\ UNCHANGED <<os, now, vaultVars, route, detail, standVars>>

\* 'Credential Exists' -> 'Update': updateCredential with the form's flags
FormAlertUpdate(c, t) ==
  /\ form.alert = "exists"
  /\ UpdateCredential(c, t, form.input.key, form.input.username,
                      form.input.password, FormOptions)
  /\ form' = [form EXCEPT !.alert = "none", !.input = NoInput,
                          !.saving = @ \cup {c}]
  /\ UNCHANGED <<route, detail, standVars>>

\* handleSave (or 'Update') after its await: on success clearForm
FormSaved(c) ==
  /\ c \in form.saving /\ calls[c].pc = "done"
  /\ form' = [(IF calls[c].returned = "true" THEN ClearedForm(form)
                                              ELSE form)
                EXCEPT !.saving = @ \ {c}]
  /\ calls' = [calls EXCEPT ![c] = IdleCall]
  /\ UNCHANGED <<os, now, itemsList, metadata, keychain, started, overlapped,
                 route, detail, standVars>>

\* handleItemPress, then the mount effect's loadCredential up to its await:
\* the switches take the stored flags; an Android record that requires
\* authentication is read by loadWithAuthentication, any other by a plain
\* getCredential
LoadCredential(c, key) ==
  LET meta == metadata[key]
      requiresAuth == meta.useBiometrics \/ meta.useDevicePasscode
  IN  /\ route = "Home" /\ form.alert = "none"
      /\ Includes(itemsList, key)
      /\ route' = "CredentialDetail"
      /\ GetCredential(c, key, os = "android" /\ requiresAuth)
      /\ detail' = [NoDetail EXCEPT
           !.itemKey = key, !.stage = "loading", !.load = c,
           !.requiresAuth = requiresAuth,
           !.useBiometrics = meta.present /\ meta.useBiometrics,
           !.useDevicePasscode = meta.present /\ meta.useDevicePasscode,
           !.toggles = detail.toggles]
      /\ UNCHANGED <<form, standVars>>

\* loadCredential / loadWithAuthentication after the awaited getCredential:
\* a credential is shown; a plain read that came back null for a record
\* that requires authentication goes on to loadWithAuthentication
CredentialLoaded(c) ==
  LET call == calls[c]
      plain == ~call.options.useBiometrics
  IN  /\ detail.stage = "loading" /\ detail.load = c /\ call.pc = "done"
      /\ detail' =
           IF call.returned = "credential"
             THEN [detail EXCEPT !.stage = "shown", !.load = 0,
                                 !.credential = call.value]
           ELSE IF plain /\ detail.requiresAuth
             THEN [detail EXCEPT !.stage = "retry", !.load = 0]
           ELSE [detail EXCEPT !.stage = "denied", !.load = 0]
      /\ calls' = [calls EXCEPT ![c] = IdleCall]
      /\ UNCHANGED <<os, now, itemsList, metadata, keychain, started,
                     overlapped, route, form, standVars>>

\* loadWithAuthentication up to its await: from loadCredential, from
\* 'Authenticate to Access' and from 'Try Again'
LoadWithAuthentication(c) ==
  /\ route = "CredentialDetail" /\ detail.stage \in {"retry", "denied"}
  /\ GetCredential(c, detail.itemKey, TRUE)
  /\ detail' = [detail EXCEPT !.stage = "loading", !.load = c]
  /\ UNCHANGED <<route, form, standVars>>

\* navigation.goBack(): the component is unmounted, its pending
\* toggleSecurityOption calls run on without it
DetailGoBack ==
  /\ route = "CredentialDetail" /\ detail.stage \in {"denied", "shown"}
  /\ route' = "Home"
  /\ detail' = [NoDetail EXCEPT !.toggles =
       [c \in Callers |-> [detail.toggles[c] EXCEPT !.live = FALSE]]]
  /\ UNCHANGED <<os, now, vaultVars, form, standVars>>

\* toggleSecurityOption(option, value) up to its await: the toggled switch
\* is set, the other one cleared when both would be on; updateCredential
\* gets the new value of the toggled flag and, for the other flag, the
\* value this render holds
ToggleSecurityOption(c, t, option) ==
  LET value == ~SwitchValue(detail, option)
      options ==
        [useBiometrics |-> IF option = "biometrics"
                             THEN value ELSE detail.useBiometrics,
         useDevicePasscode |-> IF option = "passcode"
                                 THEN value ELSE detail.useDevicePasscode]
      switched ==
        IF option = "biometrics"
          THEN [detail EXCEPT !.useBiometrics = value,
                  !.useDevicePasscode = IF value /\ @ THEN FALSE ELSE @]
          ELSE [detail EXCEPT !.useDevicePasscode = value,
                  !.useBiometrics = IF value /\ @ THEN FALSE ELSE @]
  IN  /\ route = "CredentialDetail" /\ detail.stage = "shown"
      /\ Offered(option)
      /\ UpdateCredential(c, t, detail.itemKey, detail.credential.username,
                          detail.credential.password, options)
      /\ detail' = [switched EXCEPT !.toggles[c] =
           [option |-> option, value |-> value,
            useBiometrics |-> detail.useBiometrics,
            useDevicePasscode |-> detail.useDevicePasscode,
            key |-> detail.itemKey, live |-> TRUE]]
      /\ UNCHANGED <<route, form, standVars>>

\* the flags toggleSecurityOption writes into metadata_<itemKey> itself
ToggleFlags(toggle) ==
  [useBiometrics |-> IF toggle.option = "biometrics"
                       THEN toggle.value ELSE toggle.useBiometrics,
   useDevicePasscode |-> IF toggle.option = "passcode"
                           THEN toggle.value ELSE toggle.useDevicePasscode]

\* toggleSecurityOption after its await: a failed update sets the toggled
\* switch to !value; then, failed or not, the two flags are written into
\* the stored metadata when there is one
ToggleSettled(c) ==
  LET toggle == detail.toggles[c]
      success == calls[c].returned = "true"
      flags == ToggleFlags(toggle)
      reverted ==
        IF success \/ ~toggle.live THEN detail
        ELSE IF toggle.option = "biometrics"
          THEN [detail EXCEPT !.useBiometrics = ~toggle.value]
          ELSE [detail EXCEPT !.useDevicePasscode = ~toggle.value]
  IN  /\ toggle.option # "none" /\ calls[c].pc = "done"
      /\ detail' = [reverted EXCEPT !.toggles[c] = NoToggle]
      /\ metadata' =
           IF metadata[toggle.key].present
             THEN [metadata EXCEPT
                     ![toggle.key].useBiometrics = flags.useBiometrics,
                     ![toggle.key].useDevicePasscode = flags.useDevicePasscode]
             ELSE metadata
      /\ calls' = [calls EXCEPT ![c] = IdleCall]
      /\ UNCHANGED <<os, now, itemsList, keychain, started, overlapped,
                     route, form, standVars>>

\* the records HomeScreen's form can have saved: at most one flag set
ExclusiveOptions == { o \in Options : ~(o.useBiometrics /\ o.useDevicePasscode) }

\* the stored secret as a successful saveCredential(key, 1, 1, o) leaves it
SavedSecretUnder(o) ==
  [present |-> TRUE, username |-> 1, password |-> 1,
   accessControl |-> AccessControl(o), flags |-> o]

\* the app on Home with the first key saved through the form, or no key
InitForms ==
  /\ os \in Platforms
  /\ now = 1
  /\ \/ /\ itemsList = <<>>
        /\ metadata = [k \in Keys |-> NoMeta]
        /\ keychain = [k \in Keys |-> NoSecret]
     \/ \E o \in ExclusiveOptions :
          /\ itemsList = <<1>>
          /\ metadata = [k \in Keys |->
               IF k = 1 THEN SaveMetadata(1, o) ELSE NoMeta]
          /\ keychain = [k \in Keys |->
               IF k = 1 THEN SavedSecretUnder(o) ELSE NoSecret]
  /\ calls = [c \in Callers |-> IdleCall]
  /\ started = 0
  /\ overlapped = FALSE
  /\ AppAtHome

\* loadCredential goes on to loadWithAuthentication in the same turn: no
\* other continuation runs in between
SameTurn == detail.stage # "retry"

NextForms ==
  \/ \E option \in SecurityOptions : FormSwitch(option)
  \/ ClearForm
  \/ \E c \in Callers, t \in {now, now + 1}, k \in Keys, u \in Users,
        p \in Passwords : HandleSave(c, t, k, u, p)
  \/ FormAlertCancel
  \/ \E c \in Callers, t \in {now, now + 1} : FormAlertUpdate(c, t)
  \/ \E c \in Callers : SameTurn /\ FormSaved(c)
  \/ \E c \in Callers, k \in Keys : LoadCredential(c, k)
  \/ \E c \in Callers : CredentialLoaded(c)
  \/ \E c \in Callers : LoadWithAuthentication(c)
  \/ DetailGoBack
  \/ \E c \in Callers, t \in {now, now + 1}, option \in SecurityOptions :
        ToggleSecurityOption(c, t, option)
  \/ \E c \in Callers : SameTurn /\ ToggleSettled(c)
  \/ \E c \in Callers :
        SameTurn /\ SaveCredentialResume(c) /\ UNCHANGED appVars
  \/ \E c \in Callers :
        SameTurn /\ GetCredentialResume(c) /\ UNCHANGED appVars

SpecForms == InitForms /\ [][NextForms]_vars

\* ================================================================ claims
Done(c, ops) == calls[c].pc = "done" /\ calls[c].op \in ops

Occurrences(items, key) == Cardinality({i \in 1..Len(items) : items[i] = key})

\* the items list holds exactly the keys that have metadata and a secret
IndexConsistent ==
  \A k \in Keys :
    /\ Includes(itemsList, k) <=> (metadata[k].present /\ keychain[k].present)
    /\ Occurrences(itemsList, k) <= 1

\* C1 -- index consistency: when save / update / delete calls run one at a
\* time, each with a keychain step that may succeed or fail, then after
\* every call the items list contains exactly the keys that have both a
\* metadata entry and a keychain secret.
C1_IndexConsistency == (~overlapped /\ Quiescent) => IndexConsistent

\* a save whose keychain write failed has left metadata without a secret,
\* next to a listed record of the other key
C1_Witness ==
  /\ ~overlapped
  /\ \E c \in Callers :
       /\ Done(c, {"save"}) /\ calls[c].returned = "false"
       /\ metadata[calls[c].key].present /\ ~keychain[calls[c].key].present
       /\ Len(itemsList) = 1

\* C2 -- policy mirror: for every key the policy flags in the metadata equal
\* the policy under which the keychain secret was last sealed (stated for
\* states at rest reached by calls run one at a time).
C2_PolicyMirror ==
  (~overlapped /\ Quiescent) =>
    \A k \in Keys :
      (metadata[k].present /\ keychain[k].present) =>
         Policy(metadata[k]) = SealedPolicy(keychain[k].accessControl)

C4_WriteGating ==
  \A c \in Callers :
    LET call == calls[c]
    IN  ( /\ ~overlapped
          /\ Done(c, {"save", "update"}) /\ call.returned = "true"
          /\ call.pre.secret.present
          /\ SealedPolicy(call.pre.secret.accessControl) # "None" ) =>
        call.challenge = "success"

\* C5 -- per-key serialization: also when calls on the same key overlap,
\* once all of them have completed a key is in the items list if and only
\* if it has both a metadata entry and a keychain secret.
C5_PerKeySerialization ==
  Quiescent =>
    \A k \in Keys :
      Includes(itemsList, k) <=> (metadata[k].present /\ keychain[k].present)

\* C6 -- save on a key that is already in the items list returns failure
\* and leaves the key's metadata, its secret and the items list unchanged.
C6_SaveAlreadyExists ==
  \A c \in Callers :
    LET call == calls[c]
    IN  ( /\ ~overlapped
          /\ Done(c, {"save"})
          /\ Includes(call.pre.items, call.key) ) =>
        /\ call.returned = "false"
        /\ metadata[call.key] = call.pre.meta
        /\ keychain[call.key] = call.pre.secret
        /\ itemsList = call.pre.items

\* C7 -- update on a key that is not in the items list returns failure and
\* creates no metadata entry, no secret and no items-list entry for it.
C7_UpdateNotFound ==
  \A c \in Callers :
    LET call == calls[c]
    IN  ( /\ ~overlapped
          /\ Done(c, {"update"})
          /\ ~Includes(call.pre.items, call.key) ) =>
        /\ call.returned = "false"
        /\ metadata[call.key].present => call.pre.meta.present
        /\ keychain[call.key].present => call.pre.secret.present
        /\ ~Includes(itemsList, call.key)

\* C8 -- createdAt keeps the value assigned at creation through every
\* updateCredential call on the record, successful or not.
C8_CreatedAtKept ==
  \A c \in Callers :
    LET call == calls[c]
    IN  ( /\ ~overlapped
          /\ Done(c, {"update"})
          /\ Includes(call.pre.items, call.key) /\ call.pre.meta.present ) =>
        metadata[call.key].createdAt = call.pre.meta.createdAt

\* C9 -- an updateCredential call that returns false leaves the record's
\* stored updatedAt at its previous value.
C9_UpdatedAtOnlyOnSuccess ==
  \A c \in Callers :
    LET call == calls[c]
    IN  ( /\ ~overlapped
          /\ Done(c, {"update"}) /\ call.returned = "false"
          /\ Includes(call.pre.items, call.key) /\ call.pre.meta.present ) =>
        metadata[call.key].updatedAt = call.pre.meta.updatedAt

\* C10 -- policy change is delete-then-recreate: an updateCredential call
\* whose policy differs from the stored one first resets the key's keychain
\* secret and then seals a new one; it never re-seals in place.
C10_DeleteThenRecreate ==
  \A c \in Callers :
    LET call == calls[c]
    IN  ( /\ ~overlapped
          /\ Done(c, {"update"}) /\ call.returned = "true"
          /\ call.pre.meta.present /\ call.pre.secret.present
          /\ Policy(call.options) # Policy(call.pre.meta) ) =>
        call.keychainOps = <<"reset", "set">>

\* C11 -- round trip without authentication: getCredential with default
\* options on a record saved under policy None carries no authentication
\* prompt and runs no challenge, the key is in the items list, and unless
\* the keychain read itself throws the call returns the saved username and
\* secret.
C11_RoundTripNone ==
  \A c \in Callers :
    LET call == calls[c]
        entry == keychain[call.key]
    IN  ( /\ ~overlapped
          /\ Done(c, {"get"}) /\ call.options = NoOptions
          /\ call.pre.meta.present /\ Policy(call.pre.meta) = "None"
          /\ entry.present /\ Policy(entry.flags) = "None" ) =>
        /\ ~call.request.prompt
        /\ call.challenge = "none"
        /\ Includes(itemsList, call.key)
        /\ call.settled = "resolved" =>
             /\ call.returned = "credential"
             /\ call.value.username = entry.username
             /\ call.value.password = entry.password

\* a record saved without policy has been read back with default options
C11_Witness ==
  \E c \in Callers :
    /\ ~overlapped
    /\ Done(c, {"get"}) /\ calls[c].options = NoOptions
    /\ calls[c].pre.meta.present /\ Policy(calls[c].pre.meta) = "None"
    /\ keychain[calls[c].key].present
    /\ Policy(keychain[calls[c].key].flags) = "None"
    /\ calls[c].returned = "credential"
    /\ calls[c].value.password = NumPasswords

\* C12 -- idempotent delete: a deleteCredential call whose keychain reset
\* does not throw reports success and leaves the key without secret,
\* metadata and list entry, whichever of the three existed before; no
\* delete touches another key's metadata or secret; and a delete of a key
\* that has none of the three leaves the items list, all metadata and all
\* secrets as they were.
C12_IdempotentDelete ==
  [][ \A c \in Callers :
        ( /\ calls[c].pc = "awaiting" /\ calls[c].op = "delete"
          /\ calls'[c].pc = "done" ) =>
        LET k == calls[c].key
            absent == /\ ~keychain[k].present /\ ~metadata[k].present
                      /\ ~Includes(itemsList, k)
        IN  /\ calls'[c].settled = "resolved" =>
                 /\ calls'[c].returned = "true"
                 /\ ~keychain'[k].present /\ ~metadata'[k].present
                 /\ ~Includes(itemsList', k)
            /\ \A j \in Keys \ {k} :
                 metadata'[j] = metadata[j] /\ keychain'[j] = keychain[j]
            /\ absent => /\ itemsList' = itemsList
                         /\ metadata' = metadata
                         /\ keychain' = keychain
    ]_vars

\* a delete has succeeded on a key of which only the metadata existed, while
\* the other key stayed listed
C12_Witness ==
  \E c \in Callers :
    /\ Done(c, {"delete"}) /\ calls[c].returned = "true"
    /\ calls[c].pre.meta.present /\ ~calls[c].pre.secret.present
    /\ ~Includes(calls[c].pre.items, calls[c].key)

\* C20 (as stated) -- getCredential attaches an authentication prompt only
\* when the record's stored policy is not None; for a None record the read
\* is plain whatever options the caller passes.
C20_PromptOnlyWhenProtected ==
  \A c \in Callers :
    ( /\ calls[c].op = "get"
      /\ calls[c].pre.meta.present /\ Policy(calls[c].pre.meta) = "None"
      /\ calls[c].pre.secret.present
      /\ Policy(calls[c].pre.secret.flags) = "None" ) =>
    ~calls[c].request.prompt

\* C20 -- getCredential attaches an authentication prompt to the keychain
\* read exactly when the record's stored policy is not None or the caller
\* passes useBiometrics; with default options the read of a None record is
\* plain.
C20_PromptWhenProtectedOrRequested ==
  \A c \in Callers :
    calls[c].op = "get" =>
      (calls[c].request.prompt <=>
         (Policy(calls[c].pre.meta) # "None" \/ calls[c].options.useBiometrics))

\* a None record has been read with useBiometrics: the request carried a
\* prompt, the platform ran no challenge
C20_Witness ==
  \E c \in Callers :
    /\ Done(c, {"get"}) /\ calls[c].options.useBiometrics
    /\ calls[c].pre.meta.present /\ Policy(calls[c].pre.meta) = "None"
    /\ calls[c].request.prompt
    /\ calls[c].challenge = "none" /\ calls[c].returned = "credential"

\* C19 -- index-last save: saveCredential of a key that is not in the items
\* list writes the metadata entry, then the keychain secret, then appends
\* the key; in every state of the call, wherever it stops or fails, the key
\* is in the items list only if both its metadata and its secret exist.
C19_IndexLast ==
  \A c \in Callers :
    LET call == calls[c]
        k == call.key
    IN  (call.op \in {"save", "update"} /\ ~Includes(call.pre.items, k)) =>
          /\ metadata[k].present
          /\ call.pc = "awaiting" =>
               keychain[k] = call.pre.secret /\ ~Includes(itemsList, k)
          /\ call.pc = "settled" => ~Includes(itemsList, k)
          /\ Includes(itemsList, k) =>
               (metadata[k].present /\ keychain[k].present)

\* the keychain write of a save on a new key has resolved and the key is not
\* yet listed
C19_Witness ==
  \E c \in Callers :
    /\ calls[c].op = "save" /\ calls[c].pc = "settled"
    /\ calls[c].settled = "resolved"
    /\ ~calls[c].pre.meta.present /\ ~calls[c].pre.secret.present
    /\ metadata[calls[c].key].present /\ keychain[calls[c].key].present
    /\ ~Includes(itemsList, calls[c].key)

\* the keys of a list
KeysOf(items) == {items[i] : i \in 1..Len(items)}

\* C13 -- guaranteed cleanup: whenever authenticateWithLockscreen has
\* created its temporary keychain entry, the entry has been removed by the
\* time the call returns, whether the read succeeded, returned nothing or
\* threw.
C13_ThrowawayRemoved ==
  \A g \in Gates :
    (auths[g].pc = "done" /\ auths[g].created) =>
      ~throwaway[auths[g].tempKey].present

\* C14 -- authenticateWithLockscreen returns true or false and nothing
\* else; it returns true only if the read-back of the throwaway secret
\* resolved to the credentials after a successful challenge, and false when
\* the challenge failed or was cancelled, when the read resolved to
\* nothing and when the write, the read or the cleanup threw.
C14_TrueOnlyAfterReadBack ==
  \A g \in Gates :
    LET auth == auths[g]
    IN  auth.pc = "done" =>
          /\ auth.returned \in {"true", "false"}
          /\ auth.returned = "true" =>
               /\ auth.read = "credentials" /\ auth.challenge = "success"
               /\ auth.threw = "none"
          /\ ( \/ auth.read # "credentials" \/ auth.threw # "none"
               \/ auth.challenge \in {"failed", "cancelled"} ) =>
             auth.returned = "false"

\* a call has returned true after a read-back, and a call has returned false
\* after a cancelled challenge
C14_Witness ==
  \E g, h \in Gates :
    /\ auths[g].pc = "done" /\ auths[g].returned = "true"
    /\ auths[g].read = "credentials"
    /\ auths[h].pc = "done" /\ auths[h].returned = "false"
    /\ auths[h].challenge = "cancelled"

\* the gating screen is left for Home
LeavesGate == lock.securityEnabled /\ route = "Auth" /\ route' = "Home"

\* a call made by `caller` hands true to its continuation in this step
HandsTrue(caller) ==
  \E g \in Gates :
    /\ Returned(g, caller) /\ auths[g].returned = "true"
    /\ auths'[g].pc = "idle"

\* C15 (as stated) -- with the app-security flag set at launch the gating
\* screen is left for Home only after an authenticateWithLockscreen call
\* has returned true; no other path reaches Home.
C15_HomeOnlyAfterAuthentication ==
  [][LeavesGate => HandsTrue("lock")]_vars

\* C15 -- with the app-security flag set at launch the gating screen is
\* left for Home only after an authenticateWithLockscreen call has returned
\* true, or, when isLockscreenEnabled reported no lock screen, when the
\* user chooses 'Proceed Anyway' on the security warning.
C15_HomeAfterAuthenticationOrWarning ==
  [][LeavesGate =>
       \/ HandsTrue("lock")
       \/ lock.alert = "warning" /\ ~lock.lockscreenEnabled]_vars

\* the app was launched with the flag set and has been unlocked
C15_Witness ==
  /\ lock.securityEnabled /\ route = "Home"
  /\ lock.lockscreenEnabled /\ ~lock.appLocked

\* C16 (as stated) -- the persisted app-security flag changes value only
\* after a fresh authenticateWithLockscreen call made for that toggle has
\* returned true; when that authentication fails or is cancelled the flag
\* keeps its value.
C16_FlagOnlyAfterAuthentication ==
  [][ /\ appSecurityEnabled' # appSecurityEnabled => HandsTrue("toggle")
      /\ \A g \in Gates :
           ( /\ Returned(g, "toggle") /\ auths[g].returned = "false"
             /\ auths'[g].pc = "idle" ) =>
           appSecurityEnabled' = appSecurityEnabled ]_vars

\* C16 -- the persisted app-security flag changes value only after a fresh
\* authenticateWithLockscreen call made for that toggle has returned true,
\* and then to the value of that toggle, or, when it is turned on while the
\* settings screen found no lock screen, when the user chooses 'Enable
\* Anyway' on the security warning; when the authentication fails or is
\* cancelled the flag keeps its value.
C16_FlagAfterAuthenticationOrWarning ==
  [][ /\ appSecurityEnabled' # appSecurityEnabled =>
           \/ \E g \in Gates :
                /\ Returned(g, "toggle") /\ auths[g].returned = "true"
                /\ auths'[g].pc = "idle"
                /\ appSecurityEnabled' = auths[g].newValue
           \/ /\ settings.alert = "warning" /\ ~settings.lockscreenEnabled
              /\ appSecurityEnabled'
      /\ \A g \in Gates :
           ( /\ Returned(g, "toggle") /\ auths[g].returned = "false"
             /\ auths'[g].pc = "idle" ) =>
           appSecurityEnabled' = appSecurityEnabled ]_vars

\* the flag was on when the app was launched and has been turned off
C16_Witness ==
  /\ lock.securityEnabled /\ ~appSecurityEnabled
  /\ ~settings.appSecurityEnabled /\ ~settings.authenticating

\* C17 -- clear-all aborts cleanly: when the authentication that precedes
\* clear-all has returned false, clearAllData stops there, and no keychain
\* secret and no metadata entry is deleted and the items list is unchanged.
C17_AbortLeavesStores ==
  (settings.clear \in {"aborted", "deleting", "finished"}
     /\ ~settings.success) =>
    /\ settings.clear = "aborted"
    /\ Stores = settings.pre

\* a clear-all over a full vault has been aborted
C17_Witness ==
  /\ settings.clear = "aborted" /\ ~settings.success
  /\ Len(settings.pre.items) = NumKeys
  /\ \A k \in Keys : keychain[k].present /\ metadata[k].present

\* C18 -- clear-all reconciliation: after an authenticated clear-all every
\* listed item has had a deletion attempted, the items list contains
\* exactly the keys whose deletion failed, and no key keeps a keychain
\* secret or metadata while missing from the items list.
C18_Reconciled ==
  settings.clear = "finished" =>
    /\ settings.attempted = KeysOf(settings.pre.items)
    /\ \A k \in Keys :
         /\ Includes(itemsList, k) <=> k \in settings.failed
         /\ ~Includes(itemsList, k) =>
              (~keychain[k].present /\ ~metadata[k].present)

\* C21 -- challenge follows the sealed policy: the access control that
\* getCredential requests is chosen from the stored metadata and equals the
\* one the secret was sealed under; a DevicePasscode record is read with
\* DEVICE_PASSCODE and a BiometricOrPasscode record with
\* BIOMETRY_ANY_OR_DEVICE_PASSCODE (stated where the read names an access
\* control, for records whose metadata mirrors the sealed policy).
C21_ChallengeMatchesSeal ==
  \A c \in Callers :
    LET call == calls[c]
    IN  ( /\ call.op = "get" /\ os = "android"
          /\ call.pre.meta.present /\ call.pre.secret.present
          /\ Policy(call.pre.meta) = SealedPolicy(call.pre.secret.accessControl)
          /\ Policy(call.pre.meta) \in {"DevicePasscode", "BiometricOrPasscode"} ) =>
        call.request.accessControl = call.pre.secret.accessControl

\* C22 -- getCredential never raises: a failed or cancelled challenge, a
\* keychain read that throws and a key without secret all make the call
\* return null, the value returned for a key that does not exist.
C22_NeverRaises ==
  \A c \in Callers :
    LET call == calls[c]
    IN  Done(c, {"get"}) =>
          /\ call.returned \in {"credential", "null"}
          /\ ( \/ call.settled = "rejected"
               \/ call.challenge \in {"failed", "cancelled"}
               \/ ~keychain[call.key].present ) =>
               (call.returned = "null" /\ call.value = NoSecret)

\* the challenge of a read of a protected record was cancelled, and the call
\* has returned null
C22_Witness ==
  \E c \in Callers :
    /\ Done(c, {"get"}) /\ calls[c].challenge = "cancelled"
    /\ keychain[calls[c].key].present
    /\ calls[c].settled = "rejected" /\ calls[c].returned = "null"

\* C30 -- policy mapping: each of the four combinations of (useBiometrics,
\* useDevicePasscode) is sealed under exactly one access control, on either
\* platform: none for (false, false), BIOMETRY_ANY for (true, false),
\* DEVICE_PASSCODE for (false, true), BIOMETRY_ANY_OR_DEVICE_PASSCODE for
\* (true, true).
C30_PolicyMapping ==
  /\ \A k \in Keys :
       LET entry == keychain[k]
           bio == entry.flags.useBiometrics
           pass == entry.flags.useDevicePasscode
       IN  entry.present =>
             /\ (~bio /\ ~pass) => entry.accessControl = "null"
             /\ (bio /\ ~pass) => entry.accessControl = "BIOMETRY_ANY"
             /\ (~bio /\ pass) => entry.accessControl = "DEVICE_PASSCODE"
             /\ (bio /\ pass) =>
                  entry.accessControl = "BIOMETRY_ANY_OR_DEVICE_PASSCODE"
  /\ \A c \in Callers :
       (calls[c].op \in {"save", "update"}) =>
         SealedPolicy(calls[c].request.accessControl) = Policy(calls[c].options)

\* on Android a secret saved with both flags is sealed under the combined
\* access control, next to a record sealed under another one
C30_Witness ==
  /\ os = "android"
  /\ \E k \in Keys :
       /\ keychain[k].present
       /\ keychain[k].flags.useBiometrics /\ keychain[k].flags.useDevicePasscode
       /\ keychain[k].accessControl = "BIOMETRY_ANY_OR_DEVICE_PASSCODE"
  /\ \E k \in Keys :
       /\ keychain[k].present
       /\ keychain[k].accessControl # "BIOMETRY_ANY_OR_DEVICE_PASSCODE"

\* C23 -- initial lock state: when the flag is set at launch the controller
\* starts Locked (on the gating screen, appLocked, nothing authenticated
\* yet); when it is not set the app is Unlocked, on Home, and no
\* authentication call is ever made.
C23_InitialLockState ==
  route # "Launch" =>
    /\ ~lock.securityEnabled =>
         /\ route = "Home" /\ ~lock.mounted
         /\ authCount = 0 /\ \A g \in Gates : auths[g] = NoAuth
    /\ (lock.securityEnabled /\ ~lock.mounted) =>
         /\ route = "Auth" /\ lock.appLocked /\ ~lock.authenticating
         /\ authCount = 0

\* launched with the flag set: the gating screen, locked, before its effect
C23_Witness ==
  /\ appSecurityEnabled /\ lock.securityEnabled
  /\ route = "Auth" /\ ~lock.mounted /\ lock.appLocked

\* C24 -- back to Locked after a failed attempt: the continuation of every
\* attempt that returned false (or threw) resets `authenticating` and leaves
\* the controller locked on its screen with an alert that offers the retry,
\* the continuation of an attempt that returned true unlocks, and the
\* controller does not stay in Authenticating for ever.
C24_FailedAttemptReturnsToLocked ==
  /\ [][\A g \in Gates :
          (Returned(g, "lock") /\ auths'[g].pc = "idle") =>
            IF auths[g].returned = "true"
              THEN route' = "Home" /\ ~lock'.appLocked
              ELSE /\ ~lock'.authenticating
                   /\ lock'.appLocked = lock.appLocked /\ route' = route
                   /\ lock'.alert \in {"retry", "failed", "error",
                                       "escalation"}]_vars
  /\ lock.authenticating ~> (~lock.authenticating \/ route = "Home")

\* the first attempt failed and the second one has unlocked
C24_Witness ==
  /\ route = "Home" /\ ~lock.appLocked
  /\ lock.authAttempts = 2 /\ authCount = 2

\* C25 -- escalation: once the failed attempts have reached the threshold
\* the alert the controller shows is the escalation message about the
\* device's lock settings.
C25_EscalationAfterThreshold ==
  ( /\ route = "Auth" /\ lock.authAttempts >= AttemptThreshold
    /\ \A g \in Gates : auths[g].caller # "lock"
    /\ lock.alert # "none" ) =>
  lock.alert = "escalation"

C27_UnlockedIsTerminal ==
  [][ /\ route = "Home" => route' = "Home"
      /\ ~lock.appLocked => ~lock'.appLocked ]_vars

\* unlocked by one attempt while another one, started by the retry timer,
\* is still awaiting its result
C27_Witness ==
  /\ route = "Home" /\ ~lock.appLocked
  /\ \E g \in Gates : auths[g].caller = "lock" /\ auths[g].pc # "idle"

\* C28 -- device-passcode probe: where the platform has no direct query the
\* probe reports true if the write of the throwaway DEVICE_PASSCODE secret
\* succeeded, true if it failed with the 'nothing enrolled' error, and false
\* if it failed in any other way.
C28_ProbeVerdict ==
  (probe.pc = "done" /\ probe.write # "none") =>
    /\ probe.write = "resolved" => probe.returned = "true"
    /\ probe.write = "noneEnrolled" => probe.returned = "true"
    /\ probe.write = "other" => probe.returned = "false"

\* C29 -- throwaway policy from the flag alone: the throwaway secret of
\* authenticateWithLockscreen is sealed under BIOMETRY_ANY_OR_DEVICE_PASSCODE
\* when fallbackToPasscode is true and under BIOMETRY_ANY when it is false.
C29_PolicyFromFlagOnly ==
  \A g \in Gates :
    auths[g].pc # "idle" =>
      auths[g].accessControl =
        IF auths[g].fallbackToPasscode THEN "BIOMETRY_ANY_OR_DEVICE_PASSCODE"
        ELSE "BIOMETRY_ANY"

\* C29, amended -- the policy of the throwaway secret is
\* BIOMETRY_ANY_OR_DEVICE_PASSCODE when fallbackToPasscode is true; when it
\* is false it is BIOMETRY_ANY on iOS, and on Android BIOMETRY_ANY only if
\* biometry is available and DEVICE_PASSCODE otherwise; the entry is sealed
\* under the policy so chosen.
C29_PolicyFromFlagAndPlatform ==
  [][\A g \in Gates :
       LET auth == auths'[g]
       IN  auth.pc # "idle" =>
             /\ auth.fallbackToPasscode =>
                  auth.accessControl = "BIOMETRY_ANY_OR_DEVICE_PASSCODE"
             /\ (~auth.fallbackToPasscode /\ os = "ios") =>
                  auth.accessControl = "BIOMETRY_ANY"
             /\ (~auth.fallbackToPasscode /\ os = "android") =>
                  /\ auth.accessControl \in {"BIOMETRY_ANY", "DEVICE_PASSCODE"}
                  /\ auth.accessControl = "BIOMETRY_ANY" => device.biometry
                  /\ ~device.biometry => auth.accessControl = "DEVICE_PASSCODE"
             /\ (auths[g].pc = "set" /\ auth.pc = "get") =>
                  /\ throwaway'[auth.tempKey].present
                  /\ throwaway'[auth.tempKey].accessControl
                       = auth.accessControl]_vars

\* on Android without biometry a call with fallbackToPasscode false has
\* sealed its throwaway secret under DEVICE_PASSCODE
C29_Witness ==
  \E g \in Gates :
    /\ os = "android" /\ ~device.biometry
    /\ ~auths[g].fallbackToPasscode /\ auths[g].pc = "get"
    /\ throwaway[auths[g].tempKey].present
    /\ throwaway[auths[g].tempKey].accessControl = "DEVICE_PASSCODE"

\* C32 -- inconsistency is absence: getCredential on a key whose list entry,
\* metadata entry and keychain secret are not all three present or all
\* three absent returns null.
C32_InconsistentIsAbsent ==
  \A c \in Callers :
    LET call == calls[c]
        listed == Includes(call.pre.items, call.key)
    IN  ( /\ Done(c, {"get"})
          /\ ~( /\ listed = call.pre.meta.present
                /\ listed = call.pre.secret.present ) ) =>
        call.returned = "null"

\* C34 -- unique keys: the items list never holds a key twice, also when
\* calls on the same key overlap at their awaits.
C34_UniqueKeys == \A k \in Keys : Occurrences(itemsList, k) <= 1

\* a save of a key has appended it while another save of the same key,
\* begun when the key was not listed either, is still awaiting its write
C34_Witness ==
  \E c \in Callers, d \in Callers :
    /\ c # d /\ overlapped
    /\ Done(c, {"save", "update"}) /\ calls[c].returned = "true"
    /\ ~Includes(calls[c].pre.items, calls[c].key)
    /\ InFlight(d) /\ calls[d].op \in {"save", "update"}
    /\ calls[d].key = calls[c].key
    /\ ~Includes(calls[d].pre.items, calls[d].key)
    /\ Occurrences(itemsList, calls[c].key) = 1

\* C35 -- a failed delete changes nothing: neither the step that begins a
\* deleteCredential call nor the step in which it returns false changes a
\* metadata entry, the items list or a keychain secret.
C35_FailedDeleteChangesNothing ==
  [][\A c \in Callers :
       ( \/ calls[c].pc = "idle" /\ calls'[c].op = "delete"
         \/ /\ calls[c].op = "delete" /\ calls[c].pc = "awaiting"
            /\ calls'[c].pc = "done" /\ calls'[c].returned = "false" ) =>
       UNCHANGED <<metadata, itemsList, keychain>>]_vars

\* the delete of a listed record has returned false, and the record is as
\* the call found it
C35_Witness ==
  \E c \in Callers :
    /\ Done(c, {"delete"}) /\ calls[c].returned = "false"
    /\ Includes(itemsList, calls[c].key)
    /\ metadata[calls[c].key].present /\ keychain[calls[c].key].present
    /\ metadata[calls[c].key] = calls[c].pre.meta
    /\ itemsList = calls[c].pre.items

\* C37 -- one challenge at a time: at most one authenticateUser attempt of
\* the gating screen is awaiting the gateway.
C37_SingleAttempt ==
  Cardinality({g \in Gates : /\ auths[g].caller = "lock"
                             /\ auths[g].pc \in {"set", "get", "reset"}}) <= 1

\* C38 -- the probes agree: when isLockscreenEnabled and
\* checkDevicePasscodeAvailability have met the same answers of the
\* platform (canImplyAuthentication, biometry type, probe write, cleanup)
\* they have returned the same boolean.
C38_ProbesAgree ==
  LET this == Verdict(probe)
      last == probe.last
  IN  ( /\ probe.pc = "done"
        /\ last.which # "none" /\ last.which # this.which
        /\ last.imply = this.imply /\ last.biometry = this.biometry
        /\ last.write = this.write /\ last.cleanup = this.cleanup ) =>
      this.returned = last.returned

\* the key of the call of caller c that takes the step
StepKey(c) == IF calls[c].pc = "idle" THEN calls'[c].key ELSE calls[c].key

\* C31 -- distinct keys are independent: a step of a call on one key leaves
\* the metadata and the secret of every other key as they are and leaves
\* the items list, apart from the call's own key, as it is (no entry of
\* another key is lost, added or moved), so calls on different keys that
\* interleave at their awaits end as if run one after another.
C31_DistinctKeysIndependent ==
  [][\A c \in Callers :
       calls'[c] # calls[c] =>
         /\ \A k \in Keys \ {StepKey(c)} :
              metadata'[k] = metadata[k] /\ keychain'[k] = keychain[k]
         /\ FilterOut(itemsList', StepKey(c)) = FilterOut(itemsList, StepKey(c))]_vars

\* a save that began on an empty list has appended its key after a call on
\* the other key, begun while it was awaiting, had appended that one
C31_Witness ==
  \E c \in Callers :
    /\ overlapped
    /\ Done(c, {"save", "update"}) /\ calls[c].returned = "true"
    /\ calls[c].pre.items = <<>>
    /\ Len(itemsList) = 2 /\ itemsList[2] = calls[c].key
    /\ \A k \in Keys : metadata[k].present /\ keychain[k].present

\* the plaintext stores after the continuation of a call, from what is in
\* them, the operation, its key and whether the keychain call resolved
PlainAfter(op, key, ok) ==
  IF ~ok \/ op = "get" THEN <<itemsList, metadata>>
  ELSE IF op = "delete"
    THEN <<FilterOut(itemsList, key), [metadata EXCEPT ![key] = NoMeta]>>
  ELSE <<IF Includes(itemsList, key) THEN itemsList
         ELSE Append(itemsList, key), metadata>>

\* C39 -- no secret material in the plaintext store: the metadata entry a
\* save or update writes is the same whatever username and secret the call
\* was given, and the items list and metadata after the continuation of a
\* call are determined by the plaintext stores, the operation, its key and
\* the outcome of the keychain call; so runs that differ only in usernames
\* and secrets leave the same plaintext stores.
C39_PlaintextWithoutSecrets ==
  [][\A c \in Callers :
       LET call == calls'[c]
       IN  /\ (calls[c].pc = "idle" /\ call.op \in {"save", "update"}) =>
                /\ \A u \in 1..(NumUsers + 1), p \in 1..(NumPasswords + 1) :
                     metadata'[call.key] =
                       StoredMetadata(call.key, u, p, now', call.options)
                /\ \A k \in Keys \ {call.key} : metadata'[k] = metadata[k]
                /\ itemsList' = itemsList
           /\ (calls[c].pc = "awaiting" /\ call.pc = "done") =>
                <<itemsList', metadata'>> =
                  PlainAfter(call.op, call.key, call.settled = "resolved")]_vars

\* a record was saved with one secret and updated to another one, and its
\* metadata holds the flags and timestamps of the update
C39_Witness ==
  \E c \in Callers :
    /\ Done(c, {"update"}) /\ calls[c].returned = "true"
    /\ calls[c].pre.secret.present
    /\ calls[c].pre.secret.password # calls[c].password
    /\ keychain[calls[c].key].password = calls[c].password
    /\ metadata[calls[c].key] = SaveMetadata(now, calls[c].options)

\* C33: the two flags a screen passes to saveCredential or updateCredential,
\* and the two flags stored in a record's metadata, are never both true,
\* whatever switches were toggled on the Home form and on the detail screen
C33_TogglesExclusive ==
  /\ \A c \in Callers :
       calls[c].op \in {"save", "update"} =>
         ~(calls[c].options.useBiometrics /\ calls[c].options.useDevicePasscode)
  /\ \A k \in Keys :
       ~(metadata[k].useBiometrics /\ metadata[k].useDevicePasscode)

\* C36: when a toggleSecurityOption call of the mounted detail screen
\* completes with no other call overlapping it, whether its update succeeded
\* or failed, the two switches show the two flags stored in the record's
\* metadata
ToggleCompletes(c) ==
  /\ detail.toggles[c].option # "none" /\ detail.toggles[c].live
  /\ detail'.toggles[c].option = "none"
  /\ ~overlapped

C36_SwitchesShowStoredFlags ==
  [][\A c \in Callers :
       ToggleCompletes(c) =>
         LET stored == metadata'[detail.toggles[c].key]
         IN  /\ stored.present
             /\ detail'.useBiometrics = stored.useBiometrics
             /\ detail'.useDevicePasscode = stored.useDevicePasscode]_vars
====
